---- MODULE Spec2Model ----
(***************************************************************************)
(* Verification model of the affixiocore eligibility engine                *)
(* (src/backup_original): the per-source circuit breaker, the connector's  *)
(* retry loop, the connector manager's fan-out, the request pipeline of    *)
(* StatelessEngine and the request-integrity check of a credential.        *)
(*                                                                         *)
(* Strings are sequences of one-character strings, Optional[x] is a        *)
(* sequence of length at most one (None == <<>>, Some(x) == <<x>>), and    *)
(* time is the wall clock in whole seconds.                                *)
(***************************************************************************)
EXTENDS Integers, Sequences, FiniteSets, TLC

VARIABLES
    now,        \* datetime.now(), in seconds
    cb,         \* the CircuitBreaker of the connector under study
    last,       \* the breaker call made by the latest step (history)
    run,        \* record_failure() calls since construction / the latest record_success()
    retries,    \* EndpointConfig.retries of the configured endpoints
    task,       \* the callers of DataConnector._make_request on that connector
    issued,     \* a credential and the request it was issued for
    check,      \* the latest call of verify_original_request on it

    req,        \* the verify requests: where each stands, its engine, its response
    srcFails,   \* per source, the failures in a row recorded over all requests (history)

    ruleset,    \* RuleEngine.rules, as _load_rules left them
    facts,      \* the context a call on the rule engine is given
    evaluation  \* the latest call on the rule engine and what it returned

\* the credential check
tvars == <<issued, check>>

\* the request pipeline
pvars == <<req, srcFails>>

\* the rule engine
rvars == <<ruleset, facts, evaluation>>

vars == <<now, cb, last, run, retries, task, issued, check, req, srcFails,
          ruleset, facts, evaluation>>

----------------------------------------------------------------------------
(* Bounds of the model *)

\* the clock stops here
MaxTime == 125

\* record_failure() is not called beyond this failure_count
MaxFailures == 7

\* the clock of the connector specification stops here
ConnMaxTime == 130

\* _make_request is called at most this many times on the connector
MaxCalls == 4

\* the clock of the manager specification stops here
ManagerMaxTime == 10

\* the rule engine is configured with at most this many rules
MaxRules == 2

----------------------------------------------------------------------------
(* Optional values *)

None == <<>>

Some(x) == <<x>>

----------------------------------------------------------------------------
(* CircuitBreaker, src/backup_original/logic/connectors.py *)

failure_threshold == 5

timeout == 60

\* CircuitBreaker.__init__
CircuitBreaker ==
    [failure_count |-> 0, last_failure_time |-> None, state |-> "CLOSED"]

\* a breaker that opens one failure late
record_failure_late(b, t) ==
    [b EXCEPT !.failure_count = @ + 1,
              !.last_failure_time = Some(t),
              !.state = IF b.failure_count + 1 > failure_threshold THEN "OPEN" ELSE @]

\* a breaker that stamps its first failure only
record_failure_unstamped(b, t) ==
    [b EXCEPT !.failure_count = @ + 1,
              !.last_failure_time = IF @ = None THEN Some(t) ELSE @,
              !.state = IF b.failure_count + 1 >= failure_threshold THEN "OPEN" ELSE @]

\* CircuitBreaker.record_failure at time t
record_failure(b, t) ==
    [b EXCEPT !.failure_count = @ + 1,
              !.last_failure_time = Some(t),
              !.state = IF b.failure_count + 1 >= failure_threshold THEN "OPEN" ELSE @]

\* a breaker that forgets its failures on success and stays as it is
record_success_counting(b) ==
    [b EXCEPT !.failure_count = 0]

\* a breaker that closes on success and keeps its count
record_success_keep(b) ==
    [b EXCEPT !.state = "CLOSED"]

\* CircuitBreaker.record_success
record_success(b) ==
    [b EXCEPT !.failure_count = 0, !.state = "CLOSED"]

\* a breaker that takes a rejected call for a failure
can_execute_restamping(b, t) ==
    CASE b.state = "CLOSED" -> [ret |-> TRUE, cb |-> b]
      [] b.state = "OPEN" ->
            IF b.last_failure_time # None /\ t - b.last_failure_time[1] > timeout
            THEN [ret |-> TRUE, cb |-> [b EXCEPT !.state = "HALF_OPEN"]]
            ELSE [ret |-> FALSE, cb |-> [b EXCEPT !.last_failure_time = Some(t)]]
      [] OTHER -> [ret |-> TRUE, cb |-> b]

\* a breaker that half-opens as soon as the timeout is reached
can_execute_early(b, t) ==
    CASE b.state = "CLOSED" -> [ret |-> TRUE, cb |-> b]
      [] b.state = "OPEN" ->
            IF b.last_failure_time # None /\ t - b.last_failure_time[1] >= timeout
            THEN [ret |-> TRUE, cb |-> [b EXCEPT !.state = "HALF_OPEN"]]
            ELSE [ret |-> FALSE, cb |-> b]
      [] OTHER -> [ret |-> TRUE, cb |-> b]

\* CircuitBreaker.can_execute at time t: the value returned and the breaker afterwards
can_execute(b, t) ==
    CASE b.state = "CLOSED" -> [ret |-> TRUE, cb |-> b]
      [] b.state = "OPEN" ->
            IF b.last_failure_time # None /\ t - b.last_failure_time[1] > timeout
            THEN [ret |-> TRUE, cb |-> [b EXCEPT !.state = "HALF_OPEN"]]
            ELSE [ret |-> FALSE, cb |-> b]
      [] OTHER -> [ret |-> TRUE, cb |-> b]

----------------------------------------------------------------------------
(* The breaker under an arbitrary sequence of calls *)

NoCall == [op |-> "none", ret |-> TRUE, pre |-> CircuitBreaker]

\* time passes: by a second, or by a whole timeout
TickSteps == {1, timeout}

Tick ==
    \E d \in TickSteps :
        /\ now + d <= MaxTime
        /\ now' = now + d
        /\ last' = NoCall
        /\ UNCHANGED <<cb, run, retries, task, tvars, pvars, rvars>>

CallRecordFailure ==
    /\ cb.failure_count < MaxFailures
    /\ cb' = record_failure(cb, now)
    /\ last' = [op |-> "record_failure", ret |-> TRUE, pre |-> cb]
    /\ run' = run + 1
    /\ UNCHANGED <<now, retries, task, tvars, pvars, rvars>>

CallRecordSuccess ==
    /\ cb' = record_success(cb)
    /\ last' = [op |-> "record_success", ret |-> TRUE, pre |-> cb]
    /\ run' = 0
    /\ UNCHANGED <<now, retries, task, tvars, pvars, rvars>>

CallCanExecute ==
    /\ cb' = can_execute(cb, now).cb
    /\ last' = [op |-> "can_execute", ret |-> can_execute(cb, now).ret, pre |-> cb]
    /\ UNCHANGED <<now, run, retries, task, tvars, pvars, rvars>>

InitBreaker ==
    /\ now = 0
    /\ cb = CircuitBreaker
    /\ last = NoCall
    /\ run = 0
    /\ retries = 3
    /\ task = <<>>
    /\ issued = <<>>
    /\ check = <<>>
    /\ req = <<>>
    /\ srcFails = <<>>
    /\ ruleset = <<>>
    /\ facts = <<>>
    /\ evaluation = <<>>

NextBreaker ==
    \/ Tick
    \/ CallRecordFailure
    \/ CallRecordSuccess
    \/ CallCanExecute

SpecBreaker == InitBreaker /\ [][NextBreaker]_vars

----------------------------------------------------------------------------
(* DataConnector._make_request, src/backup_original/logic/connectors.py    *)
(* A call is a record: pc is where the coroutine stands ("idle" before the *)
(* call, "inflight" awaiting client.request, "sleep" awaiting the backoff  *)
(* sleep, "returned" / "raised" once it is over), attempt the loop index,  *)
(* wake the end of the sleep, value what it returned or raised.  The       *)
(* history fields: sent counts its network attempts, admitted says whether *)
(* can_execute() would have returned true when the latest attempt was      *)
(* sent, probe that the call was let through a HALF_OPEN breaker and has   *)
(* not recorded an outcome yet.  Of the connector as a whole, last keeps   *)
(* the latest attempt (the breaker before it and the record calls it made) *)
(* and run the failures that were recorded since the last success.         *)

IdleCall ==
    [pc |-> "idle", attempt |-> 0, wake |-> 0, value |-> "none",
     sent |-> 0, admitted |-> TRUE, probe |-> FALSE, calls |-> 0]

\* what one network attempt can come to: a 2xx response with a JSON body, a
\* 2xx response whose body response.json() cannot decode, anything else
Outcomes == {"ok", "bad_json", "error"}

\* _make_request up to its first suspension: [cb, call]
MakeRequestStart(b, t, r) ==
    LET ce == can_execute(b, t) IN
    IF ~ce.ret
    THEN [cb |-> ce.cb, call |-> [IdleCall EXCEPT !.pc = "raised", !.value = "circuit_open"]]
    ELSE IF r <= 0
    THEN [cb |-> ce.cb, call |-> [IdleCall EXCEPT !.pc = "returned", !.value = "None"]]
    ELSE [cb |-> ce.cb,
          call |-> [IdleCall EXCEPT !.pc = "inflight", !.sent = 1,
                                    !.probe = (ce.cb.state = "HALF_OPEN")]]

\* the calls an attempt with outcome o makes on the breaker, in order:
\* record_success after raise_for_status, record_failure in the except
\* clause, which a response.json() that raises reaches as well
RecordCalls(o) ==
    CASE o = "ok" -> <<"record_success">>
      [] o = "bad_json" -> <<"record_success", "record_failure">>
      [] OTHER -> <<"record_failure">>

\* the breaker b after the record calls of an attempt, made at time t
RECURSIVE Record(_, _, _)
Record(b, calls, t) ==
    IF calls = <<>> THEN b
    ELSE Record(IF Head(calls) = "record_success" THEN record_success(b)
                ELSE record_failure(b, t),
                Tail(calls), t)

\* an attempt that counts its failures from the attempts of its own call
\* only, as if the breaker's count were read before the call began
MakeRequestResponsePrivate(b, t, r, c, o) ==
    IF o = "ok"
    THEN [cb |-> record_success(b),
          call |-> [c EXCEPT !.pc = "returned", !.value = "data", !.probe = FALSE]]
    ELSE [cb |-> Record([b EXCEPT !.failure_count = c.attempt], RecordCalls(o), t),
          call |-> IF c.attempt = r - 1
                   THEN [c EXCEPT !.pc = "raised", !.value = "all_attempts_failed",
                                  !.probe = FALSE]
                   ELSE [c EXCEPT !.pc = "sleep", !.wake = t + 2 ^ c.attempt,
                                  !.probe = FALSE]]

\* the awaited client.request completes with outcome o at time t: [cb, call]
MakeRequestResponse(b, t, r, c, o) ==
    IF o = "ok"
    THEN [cb |-> Record(b, RecordCalls(o), t),
          call |-> [c EXCEPT !.pc = "returned", !.value = "data", !.probe = FALSE]]
    ELSE [cb |-> Record(b, RecordCalls(o), t),
          call |-> IF c.attempt = r - 1
                   THEN [c EXCEPT !.pc = "raised", !.value = "all_attempts_failed",
                                  !.probe = FALSE]
                   ELSE [c EXCEPT !.pc = "sleep", !.wake = t + 2 ^ c.attempt,
                                  !.probe = FALSE]]

\* what a breaker that had recorded n failures in a row has recorded after an
\* attempt with outcome o
Recorded(n, o) ==
    CASE o = "ok" -> 0
      [] o = "bad_json" -> 1
      [] OTHER -> n + 1

\* the backoff sleep is over: the next iteration sends its request
MakeRequestRetry(b, t, c) ==
    [c EXCEPT !.pc = "inflight", !.attempt = @ + 1, !.wake = 0, !.sent = @ + 1,
              !.admitted = can_execute(b, t).ret]

----------------------------------------------------------------------------
(* One connector called by concurrent coroutines *)

Tasks == {1, 2}

\* the retry counts the connector is configured with
RetryChoices == {0, 3}

\* the calls made so far
Calls == task[1].calls + task[2].calls

Call(k) ==
    /\ task[k].pc \in {"idle", "returned", "raised"}
    /\ Calls < MaxCalls
    /\ LET s == MakeRequestStart(cb, now, retries) IN
        /\ cb' = s.cb
        /\ task' = [task EXCEPT ![k] = [s.call EXCEPT !.calls = task[k].calls + 1]]
    /\ UNCHANGED <<now, last, run, retries, tvars, pvars, rvars>>

Respond(k) ==
    /\ task[k].pc = "inflight"
    /\ \E o \in Outcomes :
        /\ o # "ok" => cb.failure_count < MaxFailures
        /\ LET s == MakeRequestResponse(cb, now, retries, task[k], o) IN
            /\ cb' = s.cb
            /\ task' = [task EXCEPT ![k] = s.call]
        /\ last' = [op |-> "attempt", ret |-> (o = "ok"), pre |-> cb,
                    recorded |-> RecordCalls(o)]
        /\ run' = Recorded(run, o)
    /\ UNCHANGED <<now, retries, tvars, pvars, rvars>>

Wake(k) ==
    /\ task[k].pc = "sleep"
    /\ now >= task[k].wake
    /\ task' = [task EXCEPT ![k] = MakeRequestRetry(cb, now, task[k])]
    /\ UNCHANGED <<now, cb, last, run, retries, tvars, pvars, rvars>>

\* The connector reads the clock in the breaker and waits on it in the backoff
\* sleeps only: the instants at which one of those timers expires
Timers ==
    {task[k].wake : k \in {j \in Tasks : task[j].pc = "sleep"}}
        \cup (IF cb.state = "OPEN"
              THEN {cb.last_failure_time[1] + timeout, cb.last_failure_time[1] + timeout + 1}
              ELSE {})

\* time passes, up to the expiry of a timer
Elapse ==
    /\ \E t \in Timers :
        /\ now < t
        /\ t <= ConnMaxTime
        /\ now' = t
    /\ UNCHANGED <<cb, last, run, retries, task, tvars, pvars, rvars>>

InitConn ==
    /\ now = 0
    /\ cb = CircuitBreaker
    /\ last = NoCall
    /\ run = 0
    /\ retries \in RetryChoices
    /\ task = [k \in Tasks |-> IdleCall]
    /\ issued = <<>>
    /\ check = <<>>
    /\ req = <<>>
    /\ srcFails = <<>>
    /\ ruleset = <<>>
    /\ facts = <<>>
    /\ evaluation = <<>>

NextConn ==
    \/ Elapse
    \/ \E k \in Tasks : Call(k)
    \/ \E k \in Tasks : Respond(k)
    \/ \E k \in Tasks : Wake(k)

SpecConn == InitConn /\ [][NextConn]_vars

----------------------------------------------------------------------------
(* Strings *)

\* str.upper() and str.lower() on the characters of the model
UpperChar(c) ==
    CASE c = "a" -> "A" [] c = "b" -> "B" [] c = "c" -> "C" [] c = "d" -> "D"
      [] c = "e" -> "E" [] c = "k" -> "K" [] c = "n" -> "N" [] c = "o" -> "O"
      [] c = "s" -> "S" [] c = "u" -> "U" [] OTHER -> c

LowerChar(c) ==
    CASE c = "A" -> "a" [] c = "B" -> "b" [] c = "C" -> "c" [] c = "D" -> "d"
      [] c = "E" -> "e" [] c = "K" -> "k" [] c = "N" -> "n" [] c = "O" -> "o"
      [] c = "S" -> "s" [] c = "U" -> "u" [] OTHER -> c

Upper(s) == [i \in 1 .. Len(s) |-> UpperChar(s[i])]

Lower(s) == [i \in 1 .. Len(s) |-> LowerChar(s[i])]

\* str.strip(): the string without its leading and trailing blanks
RECURSIVE LStrip(_)
LStrip(s) == IF s # <<>> /\ Head(s) = " " THEN LStrip(Tail(s)) ELSE s

RECURSIVE RStrip(_)
RStrip(s) ==
    IF s # <<>> /\ s[Len(s)] = " " THEN RStrip(SubSeq(s, 1, Len(s) - 1)) ELSE s

Strip(s) == RStrip(LStrip(s))

\* hashlib.<alg>(s.encode()).hexdigest(), taken to be free of collisions
Digest(alg, s) == [alg |-> alg, of |-> s]

----------------------------------------------------------------------------
(* Values of facts and of rule conditions: a string, an integer, None or a *)
(* list of those.  Every value carries all four fields, so that any two    *)
(* values can be compared.                                                 *)

StrV(s) == [t |-> "str", n |-> 0, s |-> s, l |-> <<>>]

IntV(n) == [t |-> "int", n |-> n, s |-> <<>>, l |-> <<>>]

NoneV == [t |-> "none", n |-> 0, s |-> <<>>, l |-> <<>>]

ListV(l) == [t |-> "list", n |-> 0, s |-> <<>>, l |-> l]

\* Optional[str] as a value
OptV(o) == IF o = None THEN NoneV ELSE StrV(o[1])

\* an update that drops what it is given
UpdateNothing(a, b) == a

\* an update in which the values already present win
UpdateKeepsFirst(a, b) ==
    [k \in DOMAIN a \cup DOMAIN b |-> IF k \in DOMAIN a THEN a[k] ELSE b[k]]

\* dict.update
Update(a, b) ==
    [k \in DOMAIN a \cup DOMAIN b |-> IF k \in DOMAIN b THEN b[k] ELSE a[k]]

EmptyDict == [k \in {} |-> NoneV]

\* ord() of the characters of the model
Ord(c) ==
    CASE c = " " -> 32 [] c = "1" -> 49 [] c = ":" -> 58 [] c = "=" -> 61
      [] c = "A" -> 65 [] c = "B" -> 66 [] c = "C" -> 67 [] c = "D" -> 68
      [] c = "E" -> 69 [] c = "K" -> 75 [] c = "N" -> 78 [] c = "O" -> 79
      [] c = "S" -> 83 [] c = "U" -> 85
      [] c = "a" -> 97 [] c = "b" -> 98 [] c = "c" -> 99 [] c = "d" -> 100
      [] c = "e" -> 101 [] c = "k" -> 107 [] c = "n" -> 110 [] c = "o" -> 111
      [] c = "s" -> 115 [] c = "u" -> 117 [] OTHER -> 63

\* a < b on strings
RECURSIVE StrLess(_, _)
StrLess(a, b) ==
    IF a = <<>> THEN b # <<>>
    ELSE IF b = <<>> THEN FALSE
    ELSE IF Head(a) = Head(b) THEN StrLess(Tail(a), Tail(b))
    ELSE Ord(Head(a)) < Ord(Head(b))

\* a < b is defined (it raises TypeError otherwise); lists are not ordered here
Ordered(a, b) == a.t = b.t /\ a.t \in {"int", "str"}

Less(a, b) == IF a.t = "int" THEN a.n < b.n ELSE StrLess(a.s, b.s)

\* x in y, for a list y
InList(x, y) == \E i \in 1 .. Len(y.l) : y.l[i] = x

\* x in y, for a string y: x is a substring of y
InStr(x, y) ==
    \E i \in 1 .. Len(y.s) + 1 :
        /\ i + Len(x.s) - 1 <= Len(y.s)
        /\ SubSeq(y.s, i, i + Len(x.s) - 1) = x.s

----------------------------------------------------------------------------
(* RuleEngine, src/backup_original/logic/rules.py                          *)
(* A rule is [name, conditions, action, reason_pass, reason_fail,          *)
(* jurisdiction]; conditions is the dict [AND, OR] of optional lists; a    *)
(* condition is [fact, operator, value], or [dict |-> FALSE, ...] for a    *)
(* list entry that is not a dict.                                          *)

Reason(kind, fact, operator, value, matched) ==
    [kind |-> kind, fact |-> fact, operator |-> operator, value |-> value,
     matched |-> matched]

Found(matched, reason) == [raised |-> FALSE, matched |-> matched, reason |-> reason]

Raised == [raised |-> TRUE, matched |-> FALSE, reason |-> Reason("raised", "", "", NoneV, FALSE)]

\* the comparison of _evaluate_condition: "true", "false", "error" when the
\* comparison raises, "unknown" for an operator that is none of the ten
Compare(op, actual, value) ==
    LET Is(b) == IF b THEN "true" ELSE "false"
        Order(b) == IF Ordered(actual, value) THEN Is(b) ELSE "error"
    IN  CASE op = "EQUALS" -> Is(actual = value)
          [] op = "NOT_EQUALS" -> Is(actual # value)
          [] op = "GREATER_THAN" -> Order(Less(value, actual))
          [] op = "LESS_THAN" -> Order(Less(actual, value))
          [] op = "GREATER_THAN_OR_EQUAL_TO" -> Order(~Less(actual, value))
          [] op = "LESS_THAN_OR_EQUAL_TO" -> Order(~Less(value, actual))
          [] op = "IN" -> Is(value.t = "list" /\ InList(actual, value))
          [] op = "NOT_IN" -> Is(value.t = "list" /\ ~InList(actual, value))
          [] op = "CONTAINS" ->
                IF actual.t = "list" THEN Is(InList(value, actual))
                ELSE IF actual.t = "str"
                THEN (IF value.t = "str" THEN Is(InStr(value, actual)) ELSE "error")
                ELSE "false"
          [] op = "NOT_CONTAINS" ->
                IF actual.t = "list" THEN Is(~InList(value, actual))
                ELSE IF actual.t = "str"
                THEN (IF value.t = "str" THEN Is(~InStr(value, actual)) ELSE "error")
                ELSE "false"
          [] OTHER -> "unknown"

\* the result dict _evaluate_condition builds from the comparison
ConditionResult(condition, compared) ==
    CASE compared = "error" -> Found(FALSE, Reason("error", "", "", NoneV, FALSE))
      [] compared = "unknown" ->
            Found(FALSE, Reason("unknown_operator", "", condition.operator, NoneV, FALSE))
      [] OTHER ->
            Found(compared = "true",
                  Reason("condition", condition.fact, condition.operator,
                         condition.value, compared = "true"))

\* a condition evaluation that reads an absent fact as None
EvaluateConditionLenient(condition, context) ==
    IF ~condition.dict THEN Raised
    ELSE ConditionResult(condition,
             Compare(condition.operator,
                     IF condition.fact \in DOMAIN context THEN context[condition.fact]
                     ELSE NoneV,
                     condition.value))

\* _evaluate_condition
EvaluateCondition(condition, context) ==
    IF ~condition.dict THEN Raised
    ELSE IF condition.fact \notin DOMAIN context
    THEN Found(FALSE, Reason("fact_not_found", condition.fact, "", NoneV, FALSE))
    ELSE ConditionResult(condition,
             Compare(condition.operator, context[condition.fact], condition.value))

\* _evaluate_and_conditions: the first condition that does not match (or
\* raises) is the result
RECURSIVE EvaluateAndConditions(_, _)
\* an AND loop that goes on after a condition that does not match
AndStepThrough(result, rest, context) ==
    IF result.raised \/ rest = <<>> THEN result
    ELSE EvaluateAndConditions(rest, context)

AndStep(result, rest, context) ==
    IF result.raised \/ ~result.matched THEN result
    ELSE EvaluateAndConditions(rest, context)

EvaluateAndConditions(conditions, context) ==
    IF conditions = <<>>
    THEN Found(TRUE, Reason("all_and_passed", "", "", NoneV, TRUE))
    ELSE AndStep(EvaluateCondition(Head(conditions), context), Tail(conditions), context)

\* _evaluate_or_conditions: the first condition that matches (or raises) is
\* the result
RECURSIVE EvaluateOrConditions(_, _)
OrStep(result, rest, context) ==
    IF result.raised \/ result.matched THEN result
    ELSE EvaluateOrConditions(rest, context)

EvaluateOrConditions(conditions, context) ==
    IF conditions = <<>>
    THEN Found(FALSE, Reason("all_or_failed", "", "", NoneV, FALSE))
    ELSE OrStep(EvaluateCondition(Head(conditions), context), Tail(conditions), context)

\* rule.reason_pass or <default>: the configured text when it is set and not empty
ReasonText(configured, default) ==
    IF configured # None /\ configured[1] # <<>>
    THEN Reason("configured", "", "", StrV(configured[1]), default.matched)
    ELSE default

\* _evaluate_rule, the AND branch, from the result of _evaluate_and_conditions
AndRule(rule, result) ==
    IF result.raised THEN Raised
    ELSE IF result.matched
    THEN Found(TRUE, ReasonText(rule.reason_pass, Reason("and_passed", "", "", NoneV, TRUE)))
    ELSE Found(FALSE, ReasonText(rule.reason_fail,
                          [result.reason EXCEPT !.kind = "and_failed_" \o @]))

\* _evaluate_rule, the OR branch, from the result of _evaluate_or_conditions
OrRule(rule, result) ==
    IF result.raised THEN Raised
    ELSE IF result.matched
    THEN Found(TRUE, ReasonText(rule.reason_pass, Reason("or_passed", "", "", NoneV, TRUE)))
    ELSE Found(FALSE, ReasonText(rule.reason_fail, Reason("or_failed", "", "", NoneV, FALSE)))

\* an _evaluate_rule that takes an empty group for a missing one
EvaluateRuleTruthy(rule, context) ==
    IF rule.conditions.AND # None /\ rule.conditions.AND[1] # <<>>
    THEN AndRule(rule, EvaluateAndConditions(rule.conditions.AND[1], context))
    ELSE IF rule.conditions.OR # None /\ rule.conditions.OR[1] # <<>>
    THEN OrRule(rule, EvaluateOrConditions(rule.conditions.OR[1], context))
    ELSE Found(FALSE, Reason("invalid_rule_structure", "", "", NoneV, FALSE))

\* _evaluate_rule
EvaluateRule(rule, context) ==
    IF rule.conditions.AND # None
    THEN AndRule(rule, EvaluateAndConditions(rule.conditions.AND[1], context))
    ELSE IF rule.conditions.OR # None
    THEN OrRule(rule, EvaluateOrConditions(rule.conditions.OR[1], context))
    ELSE Found(FALSE, Reason("invalid_rule_structure", "", "", NoneV, FALSE))

\* an evaluate that has no jurisdiction filter
SkippedNever(rule, context) == FALSE

\* the jurisdiction filter of evaluate: the rule is skipped
Skipped(rule, context) ==
    /\ rule.jurisdiction # None
    /\ rule.jurisdiction[1] # <<>>
    /\ ("jurisdiction" \notin DOMAIN context
            \/ StrV(rule.jurisdiction[1]) # context["jurisdiction"])

\* " | ".join(reasoning_chain) if reasoning_chain else "No applicable rules found"
Join(reasoning_chain) ==
    IF reasoning_chain # <<>> THEN reasoning_chain
    ELSE <<[rule |-> "", entry |-> Reason("no_applicable_rules", "", "", NoneV, FALSE)]>>

\* the entry evaluate appends to the chain for a rule: its reason, or the
\* text of the except clause
ChainEntry(rule, result) ==
    [rule |-> rule.name,
     entry |-> IF result.raised THEN Reason("Error", "", "", NoneV, FALSE)
               ELSE result.reason]

\* the loop of evaluate over the rules left, with the chain built so far
RECURSIVE EvaluateFrom(_, _, _)
\* an evaluate that ends at the first rule whose evaluation raises
EvaluateStepAborts(rule, result, rest, context, chain) ==
    IF result.raised THEN [verdict |-> "NO", reasoning |-> Join(chain)]
    ELSE IF result.matched /\ rule.action \in {"GRANT_YES", "GRANT_NO", "NO_DECISION"}
    THEN [verdict |-> IF rule.action = "GRANT_YES" THEN "YES" ELSE "NO",
          reasoning |-> Join(chain)]
    ELSE EvaluateFrom(rest, context, chain)

\* the body of the loop for a rule that applies, from the result of _evaluate_rule
EvaluateStep(rule, result, rest, context, chain) ==
    IF ~result.raised /\ result.matched
         /\ rule.action \in {"GRANT_YES", "GRANT_NO", "NO_DECISION"}
    THEN [verdict |-> IF rule.action = "GRANT_YES" THEN "YES" ELSE "NO",
          reasoning |-> Join(chain)]
    ELSE EvaluateFrom(rest, context, chain)

\* an evaluate that keeps in its chain the rules that matched only
EvaluateWithMatchesOnly(rule, result, rest, context, reasoning_chain) ==
    EvaluateStep(rule, result, rest, context,
                 IF result.matched THEN Append(reasoning_chain, ChainEntry(rule, result))
                 ELSE reasoning_chain)

EvaluateWith(rule, result, rest, context, reasoning_chain) ==
    EvaluateStep(rule, result, rest, context,
                 Append(reasoning_chain, ChainEntry(rule, result)))

EvaluateFrom(rules, context, reasoning_chain) ==
    IF rules = <<>> THEN [verdict |-> "NO", reasoning |-> Join(reasoning_chain)]
    ELSE IF Skipped(Head(rules), context)
    THEN EvaluateFrom(Tail(rules), context, reasoning_chain)
    ELSE EvaluateWith(Head(rules), EvaluateRule(Head(rules), context), Tail(rules),
                      context, reasoning_chain)

\* RuleEngine.evaluate
Evaluate(rules, context) == EvaluateFrom(rules, context, <<>>)

----------------------------------------------------------------------------
(* The credential: core/security.py, core/stateless_engine.py (60-62) and  *)
(* api/endpoints.py (verify_original_request)                              *)

jwt_expiry_hours == 24

\* settings.jwt_secret, and a key that is not it
Secret == "jwt_secret"

WrongSecret == "another_secret"

\* f"{secure_code}:{jurisdiction}:{client_id or 'none'}"
RequestData(secure_code, jurisdiction, client_id) ==
    secure_code \o <<":">> \o jurisdiction \o <<":">>
        \o (IF client_id = None \/ client_id[1] = <<>>
            THEN <<"n", "o", "n", "e">>
            ELSE client_id[1])

\* hashlib.sha256(request_data.encode()).hexdigest()
RequestHash(secure_code, jurisdiction, client_id) ==
    Digest("sha256", RequestData(secure_code, jurisdiction, client_id))

\* generate_verifiable_token at time t: the payload, signed with the secret.
\* t is datetime.utcnow().timestamp() in whole seconds, on a host whose
\* local time is UTC: the clock jwt.decode compares exp with
generate_verifiable_token(verdict, secure_code, jurisdiction, verification_id, reasoning_hash, request_hash, t) ==
    [payload |-> [verdict |-> verdict,
                  secure_code |-> secure_code,
                  jurisdiction |-> jurisdiction,
                  verification_id |-> verification_id,
                  request_hash |-> request_hash,
                  iat |-> t,
                  exp |-> t + jwt_expiry_hours * 3600,
                  reasoning_hash |-> reasoning_hash],
     key |-> Secret]

\* a verify_token that does not look at the expiry
verify_token_unexpiring(token, t) ==
    IF token.key # Secret THEN [ok |-> FALSE, error |-> "Invalid token"]
    ELSE [ok |-> TRUE, payload |-> token.payload]

\* verify_token at time t: the payload, or the ValueError raised
verify_token(token, t) ==
    IF token.key # Secret THEN [ok |-> FALSE, error |-> "Invalid token"]
    ELSE IF token.payload.exp <= t THEN [ok |-> FALSE, error |-> "Token has expired"]
    ELSE [ok |-> TRUE, payload |-> token.payload]

\* the HTTPException of verify_original_request and of verify_qr_token
Unauthorized == [status |-> 401, verified |-> FALSE, claims |-> None]

\* verify_original_request at time t: the HTTP status and the body, with the
\* claims of the token it repeats
verify_original_request(token, secure_code, jurisdiction, client_id, t) ==
    LET v == verify_token(token, t) IN
    IF ~v.ok
    THEN Unauthorized
    ELSE IF \/ secure_code # v.payload.secure_code
            \/ jurisdiction # v.payload.jurisdiction
            \/ RequestHash(secure_code, jurisdiction, client_id) # v.payload.request_hash
    THEN [status |-> 200, verified |-> FALSE, claims |-> None]
    ELSE [status |-> 200, verified |-> TRUE,
          claims |-> Some([verdict |-> v.payload.verdict,
                           verification_id |-> v.payload.verification_id,
                           issued_at |-> v.payload.iat,
                           expires_at |-> v.payload.exp])]

\* verify_qr_token at time t: the HTTP status and the body
verify_qr_token(token, t) ==
    LET v == verify_token(token, t) IN
    IF ~v.ok
    THEN Unauthorized
    ELSE [status |-> 200, verified |-> TRUE,
          claims |-> Some([verdict |-> v.payload.verdict,
                           secure_code |-> v.payload.secure_code,
                           jurisdiction |-> v.payload.jurisdiction,
                           verification_id |-> v.payload.verification_id,
                           request_hash |-> v.payload.request_hash,
                           issued_at |-> v.payload.iat,
                           expires_at |-> v.payload.exp,
                           reasoning_hash |-> v.payload.reasoning_hash])]

\* a credential that carries the hash of an empty reasoning
IssueForUnhashed(request, result, verification_id, t) ==
    generate_verifiable_token(result.verdict, request.secure_code, request.jurisdiction,
        verification_id, Digest("sha512", <<>>),
        RequestHash(request.secure_code, request.jurisdiction, request.client_id), t)

\* the token process_request asks for (lines 56-71), for the request, the
\* result of the rule evaluation and the uuid4 drawn
IssueFor(request, result, verification_id, t) ==
    generate_verifiable_token(result.verdict, request.secure_code, request.jurisdiction,
        verification_id, Digest("sha512", result.reasoning),
        RequestHash(request.secure_code, request.jurisdiction, request.client_id), t)


----------------------------------------------------------------------------
(* The request pipeline: logic/models.py (VerificationRequest),            *)
(* api/endpoints.py (verify_eligibility), core/stateless_engine.py and     *)
(* DataConnectorManager.fetch_secure_data of logic/connectors.py           *)

\* settings.endpoints, in the iteration order of the dict
Endpoints == <<"registry", "archive", "bureau">>

\* EndpointConfig.url of an endpoint: a format string, as its literal pieces
\* and its replacement fields
Url(name) ==
    IF name = "archive"
    THEN <<[field |-> FALSE, text |-> "https://archive/"], [field |-> TRUE, text |-> "code"]>>
    ELSE <<[field |-> FALSE, text |-> "https://" \o name \o "/"],
           [field |-> TRUE, text |-> "secure_code"]>>

\* url.format(secure_code=secure_code): the pieces of the formatted URL, or
\* None when it raises (KeyError for a field that is not secure_code)
Format(url, secure_code) ==
    IF \E i \in 1 .. Len(url) : url[i].field /\ url[i].text # "secure_code"
    THEN None
    ELSE Some([i \in 1 .. Len(url) |->
                  IF url[i].field THEN secure_code ELSE <<url[i].text>>])

\* the JSON objects a source may answer with
Payloads(name) ==
    IF name = "registry"
    THEN {[favorite_color |-> StrV(<<"A", "b", "c", " ">>), eligibility_score |-> IntV(20)]}
    ELSE {[eligibility_score |-> IntV(10)],
          [jurisdiction |-> StrV(<<"U", "S">>), secure_code |-> StrV(<<"A", "B", "D">>),
           client_id |-> StrV(<<"c", "1">>)]}

NoConditions == [AND |-> None, OR |-> None]

\* settings.rules
Rules ==
    <<[name |-> "us_only", jurisdiction |-> Some(<<"U", "S">>), action |-> "GRANT_NO",
       reason_pass |-> None, reason_fail |-> None,
       conditions |-> [NoConditions EXCEPT !.AND = Some(<<>>)]],
      [name |-> "score", jurisdiction |-> None, action |-> "GRANT_YES",
       reason_pass |-> None, reason_fail |-> None,
       conditions |-> [NoConditions EXCEPT !.AND =
           Some(<<[dict |-> TRUE, fact |-> "eligibility_score",
                   operator |-> "GREATER_THAN", value |-> IntV(18)]>>)]]>>

\* the names stateless_engine.py imports from core/security.py (line 10)
ImportedFromSecurity == {"generate_token", "generate_qr_code"}

\* a VerificationRequest without the validator of the jurisdiction
VerificationRequestAnywhere(secure_code, jurisdiction, client_id, security_answers) ==
    IF Len(secure_code) < 3 THEN None
    ELSE Some([secure_code |-> Upper(secure_code),
               jurisdiction |-> IF jurisdiction = None THEN <<"U", "K">>
                                ELSE Upper(jurisdiction[1]),
               client_id |-> client_id,
               security_answers |-> security_answers])

\* VerificationRequest: the validators of secure_code and jurisdiction; the
\* validated request, or None when pydantic rejects it
VerificationRequest(secure_code, jurisdiction, client_id, security_answers) ==
    LET j == IF jurisdiction = None THEN <<"U", "K">> ELSE jurisdiction[1] IN
    IF Len(secure_code) < 3 THEN None
    ELSE IF jurisdiction # None
            /\ j \notin {<<"U", "K">>, <<"U", "S">>, <<"E", "U">>, <<"C", "A">>, <<"A", "U">>}
    THEN None
    ELSE Some([secure_code |-> Upper(secure_code),
               jurisdiction |-> IF jurisdiction = None THEN j ELSE Upper(j),
               client_id |-> client_id,
               security_answers |-> security_answers])

valid_fields ==
    {"car_registration", "first_movie_seen", "first_pet_name", "mothers_maiden_name",
     "first_school_name", "favorite_color", "birth_town"}

RECURSIVE validate_every_answer(_, _)
\* a validation that wants every entry of the answers to pass
validate_every_answer(provided_answers, secure_data) ==
    IF provided_answers = <<>> THEN TRUE
    ELSE /\ provided_answers[1].field \in valid_fields
         /\ Strip(provided_answers[1].answer) # <<>>
         /\ provided_answers[1].field \in DOMAIN secure_data
         /\ secure_data[provided_answers[1].field].t = "str"
         /\ Lower(Strip(provided_answers[1].answer))
                = Lower(Strip(secure_data[provided_answers[1].field].s))
         /\ validate_every_answer(Tail(provided_answers), secure_data)

\* a validation that compares the answer with the attribute as they are
validate_security_answers_exact(provided_answers, secure_data) ==
    IF provided_answers = <<>> THEN FALSE
    ELSE /\ provided_answers[1].field \in valid_fields
         /\ provided_answers[1].field \in DOMAIN secure_data
         /\ secure_data[provided_answers[1].field] = StrV(provided_answers[1].answer)

\* StatelessEngine._validate_security_answers: the 'valid' of the result
validate_security_answers(provided_answers, secure_data) ==
    IF provided_answers = <<>> THEN FALSE
    ELSE
    LET field == provided_answers[1].field
        provided_answer == provided_answers[1].answer
        stored == IF field \in DOMAIN secure_data THEN secure_data[field] ELSE StrV(<<>>)
    IN  /\ field \in valid_fields
        /\ Strip(provided_answer) # <<>>
        /\ stored.t = "str"
        /\ Lower(Strip(provided_answer)) = Lower(Strip(stored.s))

\* VerificationResponse; an empty jwt_token or qr_code is None
VerificationResponse(verdict, jwt_token, qr_code) ==
    [status |-> 200, verdict |-> verdict, jwt_token |-> jwt_token, qr_code |-> qr_code]

\* a failure that is answered with a verdict all the same
ProcessingFailureWithVerdict(e) ==
    [status |-> 500, verdict |-> "NO", jwt_token |-> None, qr_code |-> None,
     detail |-> <<"Verification failed: ", e>>]

\* the HTTPException of verify_eligibility for the exception with the text
\* e: its detail is f"Verification failed: {str(e)}"
ProcessingFailure(e) ==
    [status |-> 500, verdict |-> "", jwt_token |-> None, qr_code |-> None,
     detail |-> <<"Verification failed: ", e>>]

\* str(e) of the NameError that a call of a name that was not imported raises
NameError(name) == "name '" \o name \o "' is not defined"

\* the context process_request hands to the rule engine
Context(request, secure_data) ==
    LET identity == [secure_code |-> StrV(request.secure_code),
                     jurisdiction |-> StrV(request.jurisdiction),
                     client_id |-> OptV(request.client_id)]
    IN  IF DOMAIN secure_data # {} THEN Update(identity, secure_data) ELSE identity

\* a process_request that gives up when nothing was fetched
RejectedUnfetched(request, secure_data) ==
    \/ DOMAIN secure_data = {}
    \/ /\ request.security_answers # None
       /\ request.security_answers[1] # <<>>
       /\ ~validate_security_answers(request.security_answers[1], secure_data)

\* the early return of process_request: data was fetched, answers were
\* supplied and they do not validate
Rejected(request, secure_data) ==
    /\ DOMAIN secure_data # {}
    /\ request.security_answers # None
    /\ request.security_answers[1] # <<>>
    /\ ~validate_security_answers(request.security_answers[1], secure_data)

\* process_request from the verdict on (lines 56-83): the credential and the
\* response built from it
Issue(request, result, t) == IssueFor(request, result, 1, t)

Issued(verdict, token) == VerificationResponse(verdict, Some(token), Some(token))

\* process_request after _evaluate_rules has returned result on context
Responded(request, context, result, t) ==
    IF "generate_verifiable_token" \notin ImportedFromSecurity
    THEN [resp |-> ProcessingFailure(NameError("generate_verifiable_token")),
          evaluated |-> TRUE, context |-> Some(context)]
    ELSE [resp |-> Issued(result.verdict, Issue(request, result, t)),
          evaluated |-> TRUE, context |-> Some(context)]

\* _evaluate_rules on the context, then the rest of process_request
Evaluated(request, context, t) ==
    Responded(request, context, Evaluate(Rules, context), t)

\* process_request after _fetch_secure_data has returned secure_data, at time
\* t: the response, with whether and on what context evaluate was called
ProcessRequest(request, secure_data, t) ==
    IF Rejected(request, secure_data)
    THEN [resp |-> VerificationResponse("NO", None, None),
          evaluated |-> FALSE, context |-> None]
    ELSE Evaluated(request, Context(request, secure_data), t)

----------------------------------------------------------------------------
(* The credential on its own: lines 54-71 of process_request run for a     *)
(* request and the data fetched for it, and the token presented to         *)
(* verify_original_request and verify_qr_token as time passes              *)

MaxIssued == 2

SecureCodes == {<<"A", "B", "C">>, <<"A", "B", "D">>, <<"A", "B", ":", "U", "K">>}

Jurisdictions == {<<"U", "K">>, <<"U", "S">>, <<"U", "K", ":", "U", "K">>}

ClientIds ==
    {None, Some(<<>>), Some(<<"n", "o", "n", "e">>), Some(<<"c", "1">>),
     Some(<<"U", "K", ":", "c", "1">>)}

Triples ==
    [secure_code : SecureCodes, jurisdiction : Jurisdictions, client_id : ClientIds]

\* what _fetch_secure_data may have returned for the request
Fetchable ==
    {EmptyDict,
     [favorite_color |-> StrV(<<"A", "b", "c", " ">>), eligibility_score |-> IntV(20)]}

\* the rule evaluation of process_request (line 54) for the triple p
EvaluationFor(p, secure_data) ==
    Evaluate(Rules, Context(p, secure_data))

\* a credential built as generate_token builds it, the fetched attributes
\* among its claims
CredentialWithData(p, secure_data, verification_id, t) ==
    [payload |-> [verdict |-> EvaluationFor(p, secure_data).verdict,
                  secure_code |-> p.secure_code,
                  jurisdiction |-> p.jurisdiction,
                  verification_id |-> verification_id,
                  request_hash |-> RequestHash(p.secure_code, p.jurisdiction, p.client_id),
                  iat |-> t,
                  exp |-> t + jwt_expiry_hours * 3600,
                  reasoning_hash |-> Digest("sha512", EvaluationFor(p, secure_data).reasoning),
                  attributes |-> secure_data],
     key |-> Secret]

\* lines 54-71 of process_request: the credential for the triple p and the
\* data fetched for it
Credential(p, secure_data, verification_id, t) ==
    IssueFor(p, EvaluationFor(p, secure_data), verification_id, t)

\* the credential issued, with what it was issued from and the one issued
\* before it for the same request
Issuance(p, secure_data, verification_id, t, before) ==
    [params |-> p, secure_data |-> secure_data,
     result |-> EvaluationFor(p, secure_data),
     token |-> Credential(p, secure_data, verification_id, t),
     before |-> before]

Checked(op, params, result) == [op |-> op, params |-> params, result |-> result]

\* POST /verify-request with the token and a triple
CheckIntegrity ==
    /\ \E p \in Triples :
        check' = Some(Checked("verify_original_request", Some(p),
                     verify_original_request(issued[1].token,
                         p.secure_code, p.jurisdiction, p.client_id, now)))
    /\ UNCHANGED <<now, cb, last, run, retries, task, issued, pvars, rvars>>

\* GET /verify/{token}
Introspect ==
    /\ check' = Some(Checked("verify_qr_token", None, verify_qr_token(issued[1].token, now)))
    /\ UNCHANGED <<now, cb, last, run, retries, task, issued, pvars, rvars>>

\* the same request is served again, with the data fetched this time
Reissue ==
    /\ issued[1].token.payload.verification_id < MaxIssued
    /\ \E secure_data \in Fetchable :
        issued' = Some(Issuance(issued[1].params, secure_data,
                           issued[1].token.payload.verification_id + 1, now,
                           Some([issued[1] EXCEPT !.before = None])))
    /\ check' = None
    /\ UNCHANGED <<now, cb, last, run, retries, task, pvars, rvars>>

\* the token is presented with a signature made with another key
Forge ==
    /\ issued[1].token.key = Secret
    /\ issued' = Some([issued[1] EXCEPT !.token.key = WrongSecret])
    /\ check' = None
    /\ UNCHANGED <<now, cb, last, run, retries, task, pvars, rvars>>

\* time passes, to the second before the expiry, the expiry or the second
\* after
Pass ==
    /\ \E t \in {issued[1].token.payload.exp + d : d \in {-1, 0, 1}} :
        /\ now < t
        /\ now' = t
    /\ check' = None
    /\ UNCHANGED <<cb, last, run, retries, task, issued, pvars, rvars>>

InitToken ==
    /\ now = 0
    /\ cb = CircuitBreaker
    /\ last = NoCall
    /\ run = 0
    /\ retries = 3
    /\ task = <<>>
    /\ issued \in {Some(Issuance(p, [eligibility_score |-> IntV(20)], 1, 0, None)) :
                       p \in Triples}
    /\ check = None
    /\ req = <<>>
    /\ srcFails = <<>>
    /\ ruleset = <<>>
    /\ facts = <<>>
    /\ evaluation = <<>>

NextToken ==
    \/ CheckIntegrity
    \/ Introspect
    \/ Reissue
    \/ Forge
    \/ Pass

SpecToken == InitToken /\ [][NextToken]_vars

----------------------------------------------------------------------------
\* DataConnectorManager.__init__: a connector, with its breaker, per endpoint
Connectors == [n \in 1 .. Len(Endpoints) |-> CircuitBreaker]

\* a request before it arrives
NewRequest ==
    [pc |-> "new", request |-> None, engine |-> None, src |-> 0, call |-> IdleCall,
     secure_data |-> EmptyDict, resp |-> None, evaluated |-> FALSE, context |-> None,
     outcomes |-> <<>>, raw |-> None]

\* what an iteration of the loop of fetch_secure_data came to (history):
\* "data" with the dict merged, "fetch_error", "circuit_open", "url_error",
\* or "None" when _make_request returned nothing and update raised
Outcome(i, outcome, data) == [src |-> i, outcome |-> outcome, data |-> data]

\* the loop of fetch_secure_data from the i-th connector on, up to its next
\* suspension: an iteration that raises (the URL does not format, the call
\* raises, or it returns None and update raises) is skipped
RECURSIVE FetchFrom(_, _, _, _, _, _)
\* the i-th iteration from the call of _make_request on
FetchCall(i, s, breakers, secure_data, t, secure_code, outcomes) ==
    IF s.call.pc = "inflight"
    THEN [pc |-> "fetch", src |-> i, call |-> s.call,
          engine |-> Some([breakers EXCEPT ![i] = s.cb]), secure_data |-> secure_data,
          outcomes |-> outcomes]
    ELSE FetchFrom(i + 1, [breakers EXCEPT ![i] = s.cb], secure_data, t, secure_code,
                   Append(outcomes, Outcome(i, s.call.value, EmptyDict)))

FetchFrom(i, breakers, secure_data, t, secure_code, outcomes) ==
    IF i > Len(Endpoints)
    THEN [pc |-> "joined", src |-> i, call |-> IdleCall, engine |-> Some(breakers),
          secure_data |-> secure_data, outcomes |-> outcomes]
    ELSE IF Format(Url(Endpoints[i]), secure_code) = None
    THEN FetchFrom(i + 1, breakers, secure_data, t, secure_code,
                   Append(outcomes, Outcome(i, "url_error", EmptyDict)))
    ELSE FetchCall(i, MakeRequestStart(breakers[i], t, retries), breakers, secure_data,
                   t, secure_code, outcomes)

\* r with the fields of f replaced
With(r, f) ==
    [r EXCEPT !.pc = f.pc, !.src = f.src, !.call = f.call, !.engine = f.engine,
              !.secure_data = f.secure_data, !.outcomes = f.outcomes]

Requests == {1, 2}

SubmittedCodes == {<<"a", "b", "c">>, <<"a", "b">>}

\* the jurisdiction of the body: left out, or a string
SubmittedJurisdictions ==
    {None, Some(<<"U", "K">>), Some(<<"u", "k">>), Some(<<"D", "E">>)}

SubmittedClientIds == {None, Some(<<"c", "1">>)}

Answer(field, answer) == [field |-> field, answer |-> answer]

SubmittedAnswers ==
    {None,
     Some(<<>>),
     Some(<<Answer("favorite_color", <<" ", "a", "B", "C">>)>>),
     Some(<<Answer("favorite_color", <<"a", "b", "d">>)>>),
     Some(<<Answer("favorite_color", <<" ">>)>>),
     Some(<<Answer("shoe_size", <<"a", "b", "c">>)>>),
     Some(<<Answer("favorite_color", <<" ", "a", "B", "C">>), Answer("shoe_size", <<" ">>)>>),
     Some(<<Answer("shoe_size", <<"a", "b", "c">>),
            Answer("favorite_color", <<" ", "a", "B", "C">>)>>)}

\* the bodies sent: one that leaves the jurisdiction out leaves the other
\* optional fields out as well
Bodies ==
    {b \in [secure_code : SubmittedCodes, jurisdiction : SubmittedJurisdictions,
            client_id : SubmittedClientIds, security_answers : SubmittedAnswers] :
        b.jurisdiction = None => b.client_id = None /\ b.security_answers = None}

\* POST /verify arrives (raw keeps the secure_code and the jurisdiction of
\* the body, as sent): the request is validated, the engine is built
\* (Depends(StatelessEngine)) and process_request runs up to its first suspension.
\* Requests are numbered in the order they arrive and are taken one after
\* another: each has an engine, connectors and breakers of its own, and no
\* object of one request is reachable from another.
Submit(r) ==
    /\ req[r].pc = "new"
    /\ \A q \in Requests : q < r => req[q].pc \in {"done", "error", "rejected"}
    /\ \E b \in Bodies :
        LET v == VerificationRequest(b.secure_code, b.jurisdiction, b.client_id,
                                     b.security_answers)
            body == Some([secure_code |-> b.secure_code, jurisdiction |-> b.jurisdiction])
        IN
        IF v = None
        THEN req' = [req EXCEPT ![r].pc = "rejected",
                                ![r].raw = body,
                                ![r].resp = Some([ProcessingFailure("validation")
                                                    EXCEPT !.status = 422,
                                                           !.detail = <<"validation">>])]
        ELSE req' = [req EXCEPT ![r] =
                        With([NewRequest EXCEPT !.request = v, !.raw = body],
                             FetchFrom(1, Connectors,
                                       EmptyDict, now, v[1].secure_code, <<>>))]
    /\ UNCHANGED <<now, cb, last, run, retries, task, tvars, srcFails, rvars>>

\* the awaited client.request of r completes
Response(r) ==
    /\ req[r].pc = "fetch"
    /\ req[r].call.pc = "inflight"
    /\ \E o \in Outcomes, data \in Payloads(Endpoints[req[r].src]) :
        LET i == req[r].src
            s == MakeRequestResponse(req[r].engine[1][i], now, retries, req[r].call, o)
            bs == [req[r].engine[1] EXCEPT ![i] = s.cb]
        IN  /\ req' = [req EXCEPT ![r] =
                  CASE s.call.pc = "returned" ->
                         With(req[r], FetchFrom(i + 1, bs, Update(req[r].secure_data, data),
                                                now, req[r].request[1].secure_code,
                                                Append(req[r].outcomes, Outcome(i, "data", data))))
                    [] s.call.pc = "raised" ->
                         With(req[r], FetchFrom(i + 1, bs, req[r].secure_data, now,
                                                req[r].request[1].secure_code,
                                                Append(req[r].outcomes,
                                                       Outcome(i, "fetch_error", EmptyDict))))
                    [] OTHER -> [req[r] EXCEPT !.call = s.call, !.engine = Some(bs)]]
            /\ srcFails' = [srcFails EXCEPT ![i] = Recorded(@, o)]
    /\ UNCHANGED <<now, cb, last, run, retries, task, tvars, rvars>>

\* the backoff sleep of r is over
WakeUp(r) ==
    /\ req[r].pc = "fetch"
    /\ req[r].call.pc = "sleep"
    /\ now >= req[r].call.wake
    /\ req' = [req EXCEPT ![r].call =
                  MakeRequestRetry(req[r].engine[1][req[r].src], now, req[r].call)]
    /\ UNCHANGED <<now, cb, last, run, retries, task, tvars, srcFails, rvars>>

\* a process_request whose cleanup is skipped when it raises
FinishedWithoutFinally(q, p) ==
    [q EXCEPT !.pc = IF p.resp.status = 200 THEN "done" ELSE "error",
              !.resp = Some(p.resp),
              !.evaluated = p.evaluated,
              !.context = p.context,
              !.engine = IF p.resp.status = 200 THEN None ELSE q.engine]

\* the request q answered with the outcome p of process_request; _cleanup
\* has dropped the engine's connectors
Finished(q, p) ==
    [q EXCEPT !.pc = IF p.resp.status = 200 THEN "done" ELSE "error",
              !.resp = Some(p.resp),
              !.evaluated = p.evaluated,
              !.context = p.context,
              !.engine = None]

\* the rest of process_request, its cleanup and the response of verify_eligibility
Complete(r) ==
    /\ req[r].pc = "joined"
    /\ req' = [req EXCEPT ![r] =
                  Finished(@, ProcessRequest(@.request[1], @.secure_data, now))]
    /\ UNCHANGED <<now, cb, last, run, retries, task, tvars, srcFails, rvars>>

\* time passes, up to the end of a backoff sleep
Sleep ==
    /\ \E r \in Requests :
        /\ req[r].pc = "fetch"
        /\ req[r].call.pc = "sleep"
        /\ now < req[r].call.wake
        /\ now' = req[r].call.wake
    /\ UNCHANGED <<cb, last, run, retries, task, tvars, pvars, rvars>>

Init ==
    /\ now = 0
    /\ cb = CircuitBreaker
    /\ last = NoCall
    /\ run = 0
    /\ retries \in RetryChoices
    /\ task = <<>>
    /\ issued = <<>>
    /\ check = <<>>
    /\ req = [r \in Requests |-> NewRequest]
    /\ srcFails = [i \in 1 .. Len(Endpoints) |-> 0]
    /\ ruleset = <<>>
    /\ facts = <<>>
    /\ evaluation = <<>>

Next ==
    \/ \E r \in Requests : Submit(r)
    \/ \E r \in Requests : Response(r)
    \/ \E r \in Requests : WakeUp(r)
    \/ \E r \in Requests : Complete(r)
    \/ Sleep

Spec == Init /\ [][Next]_vars

----------------------------------------------------------------------------
(* One DataConnectorManager whose fetch_secure_data is called again and    *)
(* again: its connectors and their breakers live as long as it does.  The  *)
(* manager is request 1 of the pipeline without the engine around it.      *)

\* fetch_secure_data(secure_code) is called, the previous call being over
ManagerFetch ==
    /\ req[1].pc \in {"new", "joined"}
    /\ \E c \in SecureCodes :
        req' = [req EXCEPT ![1] =
                   With([NewRequest EXCEPT !.request = VerificationRequest(c, None, None, None)],
                        FetchFrom(1, req[1].engine[1], EmptyDict, now, c, <<>>))]
    /\ UNCHANGED <<now, cb, last, run, retries, task, tvars, srcFails, rvars>>

\* the awaited client.request completes
ManagerResponse ==
    /\ Response(1)
    /\ \A i \in 1 .. Len(Endpoints) : req'[1].engine[1][i].failure_count <= MaxFailures

\* the backoff sleep is over
ManagerWakeUp == WakeUp(1)

\* time passes, up to the end of the backoff sleep
ManagerSleep ==
    /\ Sleep
    /\ now' <= ManagerMaxTime

InitManager ==
    /\ now = 0
    /\ cb = CircuitBreaker
    /\ last = NoCall
    /\ run = 0
    /\ retries \in RetryChoices
    /\ task = <<>>
    /\ issued = <<>>
    /\ check = <<>>
    /\ req = [r \in Requests |->
                IF r = 1 THEN [NewRequest EXCEPT !.engine = Some(Connectors)] ELSE NewRequest]
    /\ srcFails = [i \in 1 .. Len(Endpoints) |-> 0]
    /\ ruleset = <<>>
    /\ facts = <<>>
    /\ evaluation = <<>>

NextManager ==
    \/ ManagerFetch
    \/ ManagerResponse
    \/ ManagerWakeUp
    \/ ManagerSleep

SpecManager == InitManager /\ [][NextManager]_vars

----------------------------------------------------------------------------
(* The rule engine on its own: RuleEngine(rules_config) is built from a    *)
(* configuration, and evaluate, _evaluate_rule and _evaluate_condition are *)
(* called on a context.                                                    *)

\* Rule(**rule_data): pydantic accepts the rule (validate_action)
\* a Rule that validates the operators of its AND conditions as RuleCondition does
ValidRuleOperators(rule_data) ==
    /\ rule_data.action \in {"GRANT_YES", "GRANT_NO", "NO_DECISION"}
    /\ rule_data.conditions.AND # None =>
           \A n \in 1 .. Len(rule_data.conditions.AND[1]) :
               rule_data.conditions.AND[1][n].dict =>
                   rule_data.conditions.AND[1][n].operator \in
                       {"EQUALS", "NOT_EQUALS", "GREATER_THAN", "LESS_THAN",
                        "GREATER_THAN_EQUAL", "LESS_THAN_EQUAL",
                        "IN", "NOT_IN", "CONTAINS", "NOT_CONTAINS"}

\* Rule(**rule_data): the validator of the action; conditions is a dict of anything
ValidRule(rule_data) ==
    rule_data.action \in {"GRANT_YES", "GRANT_NO", "NO_DECISION"}

\* RuleEngine._load_rules: the rules pydantic accepts, in configured order
LoadRules(rules_data) == SelectSeq(rules_data, ValidRule)

\* a condition dict
Condition(fact, operator, value) ==
    [dict |-> TRUE, fact |-> fact, operator |-> operator, value |-> value]

\* an entry of a condition list that is not a dict (a string, say)
NotADict == [dict |-> FALSE, fact |-> "", operator |-> "", value |-> NoneV]

\* the operator names: those _evaluate_condition compares with, those
\* RuleCondition.validate_operator lists, those of the specification, and one
\* that is in none of these
Operators ==
    {"EQUALS", "NOT_EQUALS", "GREATER_THAN", "LESS_THAN", "GREATER_THAN_OR_EQUAL_TO",
     "LESS_THAN_OR_EQUAL_TO", "IN", "NOT_IN", "CONTAINS", "NOT_CONTAINS",
     "GREATER_THAN_EQUAL", "LESS_THAN_EQUAL",
     "GREATER_THAN_OR_EQUAL", "LESS_THAN_OR_EQUAL",
     "MATCHES"}

\* the contexts evaluate is called on
Contexts ==
    {[age |-> IntV(20), jurisdiction |-> StrV(<<"U", "K">>)],
     [age |-> IntV(18), jurisdiction |-> StrV(<<"U", "K">>)],
     [age |-> IntV(16), jurisdiction |-> StrV(<<"U", "S">>)],
     [age |-> StrV(<<"2", "0">>), jurisdiction |-> StrV(<<"U", "K">>)],
     [jurisdiction |-> StrV(<<"U", "K">>),
      tags |-> ListV(<<IntV(18), StrV(<<"U", "K">>)>>)],
     [age |-> IntV(20)],
     EmptyDict}

\* the facts and the comparison values of the configured conditions
ConditionFacts == {"age", "jurisdiction", "tags", "income"}

ConditionValues ==
    {IntV(18), StrV(<<"U", "K">>), StrV(<<"U">>), ListV(<<IntV(18), StrV(<<"U", "K">>)>>)}

\* a rule of the configuration
RuleData(conditions, action, jurisdiction) ==
    [name |-> "", jurisdiction |-> jurisdiction, action |-> action,
     reason_pass |-> None, reason_fail |-> None, conditions |-> conditions]

\* configurations of one rule with one condition, for every fact, operator and value
LeafConfigs ==
    {<<RuleData([NoConditions EXCEPT !.AND = Some(<<Condition(f, o, v)>>)],
                "GRANT_YES", None)>> :
        f \in ConditionFacts, o \in Operators, v \in ConditionValues}

\* the conditions the groups are made of: one on age, one on the jurisdiction,
\* one on a fact no context holds, and an entry that is not a dict
GroupConditions ==
    {Condition("age", "GREATER_THAN", IntV(18)),
     Condition("jurisdiction", "EQUALS", StrV(<<"U", "K">>)),
     Condition("income", "NOT_EQUALS", IntV(18)),
     NotADict}

\* the condition lists of at most two entries
Groups == UNION {[1 .. n -> GroupConditions] : n \in 0 .. 2}

\* configurations of one rule: an AND group, an OR group, both, or neither
GroupConfigs ==
    {<<RuleData([NoConditions EXCEPT !.AND = Some(g)], "GRANT_YES", None)>> : g \in Groups}
    \cup {<<RuleData([NoConditions EXCEPT !.OR = Some(g)], "GRANT_YES", None)>> : g \in Groups}
    \cup {<<RuleData([AND |-> Some(g), OR |-> Some(<<Condition("age", "GREATER_THAN", IntV(18))>>)],
                     "GRANT_YES", None)>> : g \in Groups}
    \cup {<<RuleData(NoConditions, "GRANT_YES", None)>>}

\* the rules the longer configurations are made of: a rule that matches for
\* some contexts, one that never matches, one whose evaluation raises; every
\* action, one that pydantic rejects included; with and without a jurisdiction
RulePool ==
    {RuleData([NoConditions EXCEPT !.AND = Some(<<c>>)], a, j) :
        c \in {Condition("age", "GREATER_THAN", IntV(18)),
               Condition("income", "NOT_EQUALS", IntV(18)),
               NotADict},
        a \in {"GRANT_YES", "GRANT_NO", "NO_DECISION", "REVIEW"},
        j \in {None, Some(<<"U", "K">>), Some(<<>>)}}

ListConfigs == UNION {[1 .. n -> RulePool] : n \in 0 .. MaxRules}

\* the rules of a configuration, named after their place in it
Named(rules_data) ==
    [i \in 1 .. Len(rules_data) |-> [rules_data[i] EXCEPT !.name = "rule" \o ToString(i)]]

RuleConfigs == LeafConfigs \cup GroupConfigs \cup ListConfigs

\* the conditions of a rule, those of its AND list before those of its OR list
ConditionsOf(rule) ==
    (IF rule.conditions.AND # None THEN rule.conditions.AND[1] ELSE <<>>)
        \o (IF rule.conditions.OR # None THEN rule.conditions.OR[1] ELSE <<>>)

\* a call on the rule engine and what it returned
Called(op, rule, condition, result) ==
    [op |-> op, rule |-> rule, condition |-> condition, result |-> result]

\* an evaluate that takes the rule it has looked at first off the engine's list
EvaluateCallConsuming(rules, context) ==
    [result |-> Evaluate(rules, context),
     rules |-> IF rules = <<>> THEN rules ELSE Tail(rules),
     context |-> context]

\* evaluate(context) on an engine holding rules: what it returns, and the
\* engine's rules and the caller's context after the call (it assigns to
\* neither, and reads nothing else)
EvaluateCall(rules, context) ==
    [result |-> Evaluate(rules, context), rules |-> rules, context |-> context]

\* the call as a step: the result, the engine and the context afterwards
EvaluateReturns(call) ==
    /\ evaluation' = Some(Called("evaluate", 0, NotADict, call.result))
    /\ ruleset' = call.rules
    /\ facts' = call.context

\* evaluate(context)
CallEvaluate ==
    /\ EvaluateReturns(EvaluateCall(ruleset, facts))
    /\ UNCHANGED <<now, cb, last, run, retries, task, tvars, pvars>>

\* _evaluate_rule(rule, context) for a rule of the engine
CallEvaluateRule ==
    /\ \E i \in 1 .. Len(ruleset) :
        evaluation' = Some(Called("_evaluate_rule", i, NotADict,
                                  EvaluateRule(ruleset[i], facts)))
    /\ UNCHANGED <<now, cb, last, run, retries, task, tvars, pvars, ruleset, facts>>

\* _evaluate_condition(condition, context) for a condition of a rule of the engine
CallEvaluateCondition ==
    /\ \E i \in 1 .. Len(ruleset) :
        \E n \in 1 .. Len(ConditionsOf(ruleset[i])) :
            evaluation' = Some(Called("_evaluate_condition", i, ConditionsOf(ruleset[i])[n],
                                      EvaluateCondition(ConditionsOf(ruleset[i])[n], facts)))
    /\ UNCHANGED <<now, cb, last, run, retries, task, tvars, pvars, ruleset, facts>>

InitRules ==
    /\ now = 0
    /\ cb = CircuitBreaker
    /\ last = NoCall
    /\ run = 0
    /\ retries = 3
    /\ task = <<>>
    /\ issued = <<>>
    /\ check = <<>>
    /\ req = <<>>
    /\ srcFails = <<>>
    /\ \E rules_data \in RuleConfigs : ruleset = LoadRules(Named(rules_data))
    /\ facts \in Contexts
    /\ evaluation = None

NextRules ==
    \/ CallEvaluate
    \/ CallEvaluateRule
    \/ CallEvaluateCondition

SpecRules == InitRules /\ [][NextRules]_vars

----------------------------------------------------------------------------
\* a request that has been answered
Answered(r) == req[r].pc \in {"done", "error"}

\* the entry of the answer map that is inspected passes: an enumerated field,
\* a non-blank answer equal, trimmed and case-folded, to the fetched attribute
AnswerPasses(entry, secure_data) ==
    /\ entry.field \in valid_fields
    /\ Strip(entry.answer) # <<>>
    /\ entry.field \in DOMAIN secure_data
    /\ secure_data[entry.field].t = "str"
    /\ Lower(Strip(entry.answer)) = Lower(Strip(secure_data[entry.field].s))

\* the request supplies security answers
SuppliesAnswers(r) ==
    /\ req[r].request[1].security_answers # None
    /\ req[r].request[1].security_answers[1] # <<>>

(* C1: a request that supplies security answers whose inspected answer is  *)
(* incorrect, blank or of an unknown field is answered NO with an empty    *)
(* token and an empty QR, and evaluate is not called for it, whatever the  *)
(* fetch returned.                                                         *)
C1_BadAnswerShortCircuits ==
    \A r \in Requests :
        /\ Answered(r)
        /\ SuppliesAnswers(r)
        /\ ~AnswerPasses(req[r].request[1].security_answers[1][1], req[r].secure_data)
        => /\ req[r].resp[1] = VerificationResponse("NO", None, None)
           /\ ~req[r].evaluated

(* C4: the breaker of a source is one for the whole process: the failures  *)
(* it has recorded while serving earlier requests are counted in the       *)
(* breaker that a later request's fetch goes through.                      *)
C4_BreakerOutlivesRequest ==
    \A r \in Requests :
        req[r].engine # None =>
            \A i \in 1 .. Len(Endpoints) :
                req[r].engine[1][i].failure_count = srcFails[i]

(* C6: in the context handed to the rule engine secure_code, jurisdiction  *)
(* and client_id are those of the validated request.                       *)
C6_IdentityKept ==
    \A r \in Requests :
        req[r].context # None =>
            /\ req[r].context[1].secure_code = StrV(req[r].request[1].secure_code)
            /\ req[r].context[1].jurisdiction = StrV(req[r].request[1].jurisdiction)
            /\ req[r].context[1].client_id = OptV(req[r].request[1].client_id)

(* C7: a validated request that is not short-circuited by the answer check *)
(* ends in Done, never in Error, with a signed token whose verdict is the  *)
(* verdict of the response.                                                *)
C7_PipelineCompletes ==
    \A r \in Requests :
        Answered(r) /\ req[r].evaluated =>
            /\ req[r].pc = "done"
            /\ req[r].resp[1].jwt_token # None
            /\ req[r].resp[1].jwt_token[1].key = Secret
            /\ req[r].resp[1].jwt_token[1].payload.verdict = req[r].resp[1].verdict

(* C8: the connectors are called concurrently: once a fetch has come back  *)
(* from its first suspension (it sleeps before a retry, or it is over) the *)
(* calls to all the sources have been started; and every call is over when *)
(* rule evaluation begins.                                                 *)
C8_FanOut ==
    \A r \in Requests :
        /\ req[r].pc = "fetch" /\ req[r].call.pc = "sleep" =>
               \A i \in 1 .. Len(Endpoints) : i <= req[r].src
        /\ req[r].evaluated => req[r].src > Len(Endpoints)

----------------------------------------------------------------------------
(* C2: a token issued for a triple (code, jurisdiction, client id) is      *)
(* verified only for that exact triple, an absent client id being          *)
(* different from every client id string.                                  *)
C2_AntiReplay ==
    (check # None /\ check[1].op = "verify_original_request"
        /\ verify_token(issued[1].token, now).ok) =>
        (check[1].result.verified <=> check[1].params = Some(issued[1].params))

----------------------------------------------------------------------------
(* C3: every network attempt is sent in a breaker state in which           *)
(* can_execute() would return true, the later iterations of the retry loop *)
(* included.                                                               *)
C3_AttemptsAdmitted ==
    \A k \in Tasks : task[k].pc = "inflight" => task[k].admitted

(* C5: once an OPEN breaker has half-opened, a single call is let through  *)
(* until that call has recorded its success or failure.                    *)
C5_SingleProbe ==
    Cardinality({k \in Tasks : task[k].probe}) <= 1

----------------------------------------------------------------------------
(* C9: after the n-th record_failure() in a row since the breaker was last *)
(* CLOSED with failure_count 0 (construction or record_success), the       *)
(* failure_count is n, the state is OPEN iff n >= failure_threshold, and   *)
(* last_failure_time is the time of that call.                             *)
C9_RecordFailureCounts ==
    last.op = "record_failure" =>
        /\ cb.failure_count = run
        /\ (cb.state = "OPEN") <=> (run >= failure_threshold)
        /\ cb.last_failure_time = Some(now)

\* the fifth failure in a row has just opened the breaker
C9_Witness ==
    /\ last.op = "record_failure"
    /\ run = failure_threshold
    /\ last.pre.state = "CLOSED"
    /\ cb.state = "OPEN"

(* C10: can_execute() returns true in CLOSED and HALF_OPEN and leaves the  *)
(* breaker as it was; in OPEN it returns false and leaves the breaker OPEN *)
(* while now - last_failure_time <= timeout, and moves to HALF_OPEN and    *)
(* returns true once more than the timeout has elapsed.                    *)
C10_CanExecute ==
    last.op = "can_execute" =>
        LET p == last.pre IN
        /\ p.state \in {"CLOSED", "HALF_OPEN"} => last.ret /\ cb = p
        /\ p.state = "OPEN" /\ now - p.last_failure_time[1] <= timeout =>
               ~last.ret /\ cb = p
        /\ p.state = "OPEN" /\ now - p.last_failure_time[1] > timeout =>
               last.ret /\ cb = [p EXCEPT !.state = "HALF_OPEN"]

\* an OPEN breaker has just been half-opened by can_execute()
C10_Witness ==
    /\ last.op = "can_execute"
    /\ last.pre.state = "OPEN"
    /\ last.ret
    /\ cb.state = "HALF_OPEN"
    /\ now - cb.last_failure_time[1] = timeout + 1

(* C11: in HALF_OPEN the next recorded outcome decides: record_success()   *)
(* gives CLOSED with failure_count 0; record_failure() gives OPEN with     *)
(* last_failure_time set to the time of that call, so that can_execute()   *)
(* is false for the timeout that follows; and the breaker becomes          *)
(* HALF_OPEN only from OPEN, by can_execute().                             *)
C11_HalfOpenOutcome ==
    /\ last.op = "record_success" /\ last.pre.state = "HALF_OPEN" =>
           cb.state = "CLOSED" /\ cb.failure_count = 0
    /\ last.op = "record_failure" /\ last.pre.state = "HALF_OPEN" =>
           /\ cb.state = "OPEN"
           /\ cb.last_failure_time = Some(now)
           /\ \A d \in 0 .. timeout : ~can_execute(cb, now + d).ret
           /\ can_execute(cb, now + timeout + 1).ret
    /\ last.op # "none" /\ cb.state = "HALF_OPEN" /\ last.pre.state # "HALF_OPEN" =>
           last.op = "can_execute" /\ last.pre.state = "OPEN"

\* a failure has just been recorded on a HALF_OPEN breaker, a timeout and
\* more after the failure that had opened it
C11_Witness ==
    /\ last.op = "record_failure"
    /\ last.pre.state = "HALF_OPEN"
    /\ last.pre.last_failure_time # Some(now)
    /\ cb.state = "OPEN"

(* C12: record_success() gives failure_count 0 and state CLOSED from every *)
(* state, and failure_count is at all times the number of record_failure() *)
(* calls since the latest record_success() (or construction).              *)
C12_RecordSuccessResets ==
    /\ last.op = "record_success" => cb.failure_count = 0 /\ cb.state = "CLOSED"
    /\ cb.failure_count = run

\* a success has just been recorded on an OPEN breaker
C12_Witness ==
    /\ last.op = "record_success"
    /\ last.pre.state = "OPEN"
    /\ last.pre.failure_count >= failure_threshold
    /\ cb.failure_count = 0

----------------------------------------------------------------------------
(* C13: a fetch whose every attempt fails has made 1 + retries network     *)
(* attempts (the initial one and retries retries) when it raises the fetch *)
(* error; an admitted fetch makes its initial attempt; and a fetch that    *)
(* has returned data made its last attempt when it succeeded.              *)
C13_AttemptsMade ==
    \A k \in Tasks :
        /\ task[k].value = "all_attempts_failed" => task[k].sent = 1 + retries
        /\ task[k].pc \in {"returned", "raised"} /\ task[k].value # "circuit_open" =>
               task[k].sent >= 1
        /\ task[k].value = "data" => task[k].pc = "returned" /\ task[k].sent = task[k].attempt + 1

----------------------------------------------------------------------------
\* the fetch of request r is over
Fetched(r) == req[r].pc \in {"joined", "done", "error"}

\* the iterations of the fetch of request r that merged data, in order
Got(r) == SelectSeq(req[r].outcomes, LAMBDA e : e.outcome = "data")

\* the sources that answered request r with data and define the fact k
Defining(r, k) == {n \in 1 .. Len(Got(r)) : k \in DOMAIN Got(r)[n].data}

(* C14: a fetch runs to its end whatever each source does (it answers, all *)
(* its attempts fail, its breaker rejects the call, its URL does not       *)
(* format); the map it returns holds exactly the facts of the sources that *)
(* answered, each with a value one of them gave, and is empty when none    *)
(* answered.                                                               *)
C14_FetchAllTotal ==
    \A r \in Requests :
        /\ req[r].pc \in {"new", "rejected", "fetch", "joined", "done", "error"}
        /\ req[r].pc = "fetch" => req[r].src \in 1 .. Len(Endpoints)
        /\ Fetched(r) =>
            /\ req[r].src = Len(Endpoints) + 1
            /\ DOMAIN req[r].secure_data =
                   UNION {DOMAIN Got(r)[n].data : n \in 1 .. Len(Got(r))}
            /\ \A k \in DOMAIN req[r].secure_data :
                   \E n \in Defining(r, k) : req[r].secure_data[k] = Got(r)[n].data[k]
            /\ Got(r) = <<>> => req[r].secure_data = EmptyDict

\* a fetch is over in which the breaker of the first source rejected the
\* call, the URL of the second did not format and the third answered
C14_Witness ==
    \E r \in Requests :
        /\ Fetched(r)
        /\ Len(req[r].outcomes) = Len(Endpoints)
        /\ req[r].outcomes[1].outcome = "circuit_open"
        /\ req[r].outcomes[2].outcome = "url_error"
        /\ req[r].outcomes[3].outcome = "data"
        /\ req[r].secure_data = req[r].outcomes[3].data

(* C15: a fact that several answering sources define has, in the map the   *)
(* fetch returns, the value given by the one that comes last in the order  *)
(* of the configured sources.                                              *)
C15_LastSourceWins ==
    \A r \in Requests :
        Fetched(r) =>
            \A k \in DOMAIN req[r].secure_data :
                \E n \in Defining(r, k) :
                    /\ \A m \in Defining(r, k) : Got(r)[m].src <= Got(r)[n].src
                    /\ req[r].secure_data[k] = Got(r)[n].data[k]

\* two sources have answered with different values of the same fact
C15_Witness ==
    \E r \in Requests :
        /\ Fetched(r)
        /\ Len(Got(r)) = 2
        /\ "eligibility_score" \in DOMAIN Got(r)[1].data
        /\ "eligibility_score" \in DOMAIN Got(r)[2].data
        /\ Got(r)[1].data.eligibility_score # Got(r)[2].data.eligibility_score
        /\ req[r].secure_data.eligibility_score = Got(r)[2].data.eligibility_score

----------------------------------------------------------------------------
\* the latest call on the rule engine was op
Evaluating(op) == evaluation # None /\ evaluation[1].op = op

\* the rule has no jurisdiction filter (none, or an empty one), or its filter
\* is the jurisdiction of the context
Applicable(rule) ==
    \/ rule.jurisdiction = None
    \/ rule.jurisdiction[1] = <<>>
    \/ /\ "jurisdiction" \in DOMAIN facts
       /\ facts["jurisdiction"] = StrV(rule.jurisdiction[1])

\* the rule matches the context: its evaluation returns, with matched true
Matches(rule) ==
    /\ ~EvaluateRule(rule, facts).raised
    /\ EvaluateRule(rule, facts).matched

\* the applicable rules that match
Deciding == {i \in 1 .. Len(ruleset) : Applicable(ruleset[i]) /\ Matches(ruleset[i])}

\* the first of them in configured order
FirstDeciding == CHOOSE i \in Deciding : \A j \in Deciding : i <= j

(* C16: evaluate returns YES exactly when some applicable rule matches and *)
(* the first such rule in configured order has action GRANT_YES; in every  *)
(* other case it returns NO.                                               *)
C16_Verdict ==
    Evaluating("evaluate") =>
        /\ evaluation[1].result.verdict \in {"YES", "NO"}
        /\ evaluation[1].result.verdict = "YES" <=>
               (Deciding # {} /\ ruleset[FirstDeciding].action = "GRANT_YES")

\* the first rule is filtered out by its jurisdiction and would have said NO;
\* the second one grants
C16_Witness ==
    /\ Evaluating("evaluate")
    /\ Len(ruleset) = 2
    /\ ~Applicable(ruleset[1]) /\ Matches(ruleset[1]) /\ ruleset[1].action = "GRANT_NO"
    /\ Deciding = {2}
    /\ evaluation[1].result.verdict = "YES"

\* the condition is a dict on a fact that the context does not hold
OnAbsentFact(condition) == condition.dict /\ condition.fact \notin DOMAIN facts

(* C17: a condition on a fact that is not in the context does not match,   *)
(* whatever its operator, and records that the fact was not found; and     *)
(* when every rule is an AND group holding such a condition, evaluate      *)
(* returns NO.                                                             *)
C17_AbsentFactFailsClosed ==
    /\ Evaluating("_evaluate_condition") /\ OnAbsentFact(evaluation[1].condition) =>
           /\ ~evaluation[1].result.raised
           /\ ~evaluation[1].result.matched
           /\ evaluation[1].result.reason.kind = "fact_not_found"
    /\ /\ Evaluating("evaluate")
       /\ \A i \in 1 .. Len(ruleset) :
              /\ ruleset[i].conditions.AND # None
              /\ \E n \in 1 .. Len(ruleset[i].conditions.AND[1]) :
                     OnAbsentFact(ruleset[i].conditions.AND[1][n])
       => evaluation[1].result.verdict = "NO"

\* NOT_EQUALS has been evaluated on a fact that the context does not hold
C17_Witness ==
    /\ Evaluating("_evaluate_condition")
    /\ OnAbsentFact(evaluation[1].condition)
    /\ evaluation[1].condition.operator = "NOT_EQUALS"
    /\ ~evaluation[1].result.matched

\* the n-th entry of the list is a condition that matches
LeafMatches(conditions, n) ==
    /\ conditions[n].dict
    /\ EvaluateCondition(conditions[n], facts).matched

\* the n-th entry of the list is a condition that does not match
LeafFails(conditions, n) ==
    /\ conditions[n].dict
    /\ ~EvaluateCondition(conditions[n], facts).matched

\* the rule whose evaluation is the latest call
EvaluatedRule == ruleset[evaluation[1].rule]

(* C18: a rule with an AND list matches iff every condition of the list    *)
(* matches, and its evaluation ends at the first condition that does not   *)
(* match (what follows is not looked at, and that condition gives the      *)
(* reason); a rule with an OR list only matches iff some condition of the  *)
(* list matches, and its evaluation ends at the first that does.           *)
C18_Groups ==
    Evaluating("_evaluate_rule") =>
        LET result == evaluation[1].result
            ands == EvaluatedRule.conditions.AND
            ors == EvaluatedRule.conditions.OR
        IN  /\ ands # None /\ (\A n \in 1 .. Len(ands[1]) : ands[1][n].dict) =>
                   (result.matched <=> \A n \in 1 .. Len(ands[1]) : LeafMatches(ands[1], n))
            /\ ands # None =>
                   \A n \in 1 .. Len(ands[1]) :
                       /\ LeafFails(ands[1], n)
                       /\ \A m \in 1 .. n - 1 : LeafMatches(ands[1], m)
                       => /\ ~result.raised
                          /\ ~result.matched
                          /\ result.reason =
                                 [EvaluateCondition(ands[1][n], facts).reason
                                     EXCEPT !.kind = "and_failed_" \o @]
            /\ ands = None /\ ors # None /\ (\A n \in 1 .. Len(ors[1]) : ors[1][n].dict) =>
                   (result.matched <=> \E n \in 1 .. Len(ors[1]) : LeafMatches(ors[1], n))
            /\ ands = None /\ ors # None =>
                   \A n \in 1 .. Len(ors[1]) :
                       /\ LeafMatches(ors[1], n)
                       /\ \A m \in 1 .. n - 1 : LeafFails(ors[1], m)
                       => ~result.raised /\ result.matched

\* an AND list whose first condition does not match and whose second entry
\* would raise has been evaluated
C18_Witness ==
    /\ Evaluating("_evaluate_rule")
    /\ EvaluatedRule.conditions.AND # None
    /\ Len(EvaluatedRule.conditions.AND[1]) = 2
    /\ LeafFails(EvaluatedRule.conditions.AND[1], 1)
    /\ ~EvaluatedRule.conditions.AND[1][2].dict
    /\ ~evaluation[1].result.raised
    /\ ~evaluation[1].result.matched

\* the operators of the specification
SpecifiedOperators ==
    {"EQUALS", "NOT_EQUALS", "GREATER_THAN", "LESS_THAN", "GREATER_THAN_OR_EQUAL",
     "LESS_THAN_OR_EQUAL", "IN", "NOT_IN", "CONTAINS", "NOT_CONTAINS"}

\* what the operator means for the fact value a and the comparison value v:
\* the order on integers, membership in a list
Meaning(operator, a, v) ==
    CASE operator = "EQUALS" -> a = v
      [] operator = "NOT_EQUALS" -> a # v
      [] operator = "GREATER_THAN" -> a.n > v.n
      [] operator = "LESS_THAN" -> a.n < v.n
      [] operator = "GREATER_THAN_OR_EQUAL" -> a.n >= v.n
      [] operator = "LESS_THAN_OR_EQUAL" -> a.n <= v.n
      [] operator = "IN" -> \E n \in 1 .. Len(v.l) : v.l[n] = a
      [] operator = "NOT_IN" -> \A n \in 1 .. Len(v.l) : v.l[n] # a
      [] operator = "CONTAINS" -> \E n \in 1 .. Len(a.l) : a.l[n] = v
      [] operator = "NOT_CONTAINS" -> \A n \in 1 .. Len(a.l) : a.l[n] # v

\* the operator is defined on these operands
Defined(operator, a, v) ==
    CASE operator \in {"EQUALS", "NOT_EQUALS"} -> TRUE
      [] operator \in {"IN", "NOT_IN"} -> v.t = "list"
      [] operator \in {"CONTAINS", "NOT_CONTAINS"} -> a.t = "list"
      [] OTHER -> a.t = "int" /\ v.t = "int"

(* C19: a condition with one of the ten specified operators, on a fact the *)
(* context holds, matches iff the comparison the operator stands for holds *)
(* between the fact and the value: GREATER_THAN_OR_EQUAL iff fact >= value *)
(* and LESS_THAN_OR_EQUAL iff fact <= value among them.                    *)
C19_OperatorSemantics ==
    Evaluating("_evaluate_condition") =>
        LET c == evaluation[1].condition IN
        /\ c.dict
        /\ c.fact \in DOMAIN facts
        /\ c.operator \in SpecifiedOperators
        /\ Defined(c.operator, facts[c.fact], c.value)
        => (evaluation[1].result.matched <=> Meaning(c.operator, facts[c.fact], c.value))

\* the applicable rules whose evaluation raises
Raising ==
    {i \in 1 .. Len(ruleset) :
        Applicable(ruleset[i]) /\ EvaluateRule(ruleset[i], facts).raised}

\* the entries of the trace for rule i
TraceOf(i) ==
    {n \in 1 .. Len(evaluation[1].result.reasoning) :
        evaluation[1].result.reasoning[n].rule = ruleset[i].name}

(* C20: a rule whose evaluation raises does not end evaluate: unless an    *)
(* earlier rule has decided, the trace holds an error entry for it, and    *)
(* the verdict is the one of the first applicable rule that matches, the   *)
(* rules after the one that raised included.                               *)
C20_RuleErrorContinues ==
    Evaluating("evaluate") =>
        /\ \A i \in Raising :
               (\A j \in Deciding : i < j) =>
                   \E n \in TraceOf(i) : evaluation[1].result.reasoning[n].entry.kind = "Error"
        /\ \A i \in Raising, j \in Deciding :
               i < j /\ j = FirstDeciding =>
                   /\ evaluation[1].result.verdict =
                          (IF ruleset[j].action = "GRANT_YES" THEN "YES" ELSE "NO")
                   /\ TraceOf(j) # {}

\* the first rule has raised and the second one has granted
C20_Witness ==
    /\ Evaluating("evaluate")
    /\ Len(ruleset) = 2
    /\ Raising = {1}
    /\ Deciding = {2}
    /\ evaluation[1].result.reasoning[1].entry.kind = "Error"
    /\ evaluation[1].result.verdict = "YES"

----------------------------------------------------------------------------
----------------------------------------------------------------------------
\* the token presented is the one issued, and its expiry is still ahead
Current == issued[1].token.key = Secret /\ now < issued[1].token.payload.exp

CheckedBy(op) == check # None /\ check[1].op = op

----------------------------------------------------------------------------
(* C23: a token signed with the secret verifies at every time before its   *)
(* expiry (the time of issuance plus the validity window) and fails as     *)
(* expired at every time after it; a token signed with another key fails   *)
(* as invalid; and for a token that fails, verify_original_request and     *)
(* verify_qr_token answer 401, without verified and without any claim.     *)
(* The one instant of the expiry itself is left to the JWT library.        *)
C23_Expiry ==
    /\ issued[1].token.payload.exp
           = issued[1].token.payload.iat + jwt_expiry_hours * 3600
    /\ Current => verify_token(issued[1].token, now).ok
    /\ (issued[1].token.key = Secret /\ now > issued[1].token.payload.exp) =>
           /\ ~verify_token(issued[1].token, now).ok
           /\ verify_token(issued[1].token, now).error = "Token has expired"
    /\ issued[1].token.key # Secret =>
           /\ ~verify_token(issued[1].token, now).ok
           /\ verify_token(issued[1].token, now).error = "Invalid token"
    /\ (check # None /\ ~verify_token(issued[1].token, now).ok) =>
           /\ check[1].result.status = 401
           /\ ~check[1].result.verified
           /\ check[1].result.claims = None

\* a token presented to verify_qr_token the second after its expiry
C23_Witness ==
    /\ issued[1].token.key = Secret
    /\ now = issued[1].token.payload.exp + 1
    /\ CheckedBy("verify_qr_token")
    /\ check[1].result.status = 401

----------------------------------------------------------------------------
\* the claims of a token apart from the verification id and the timestamps
Apart(payload) == [payload EXCEPT !.verification_id = 0, !.iat = 0, !.exp = 0]

(* C24: two credentials issued for the same request with the same verdict  *)
(* and the same reasoning carry the same claims apart from the             *)
(* verification id and the timestamps, whatever was fetched for each.      *)
C24_NoFetchedAttribute ==
    (issued[1].before # None /\ issued[1].before[1].result = issued[1].result) =>
        Apart(issued[1].token.payload) = Apart(issued[1].before[1].token.payload)

\* the same verdict and reasoning from different fetched attributes, the
\* second credential issued later than the first
C24_Witness ==
    /\ issued[1].before # None
    /\ issued[1].before[1].result = issued[1].result
    /\ issued[1].before[1].secure_data # issued[1].secure_data
    /\ DOMAIN issued[1].before[1].secure_data # {}
    /\ DOMAIN issued[1].secure_data # {}
    /\ issued[1].before[1].token.payload.iat < issued[1].token.payload.iat

----------------------------------------------------------------------------
\* the jurisdictions the service serves
ServedJurisdictions ==
    {<<"U", "K">>, <<"U", "S">>, <<"E", "U">>, <<"C", "A">>, <<"A", "U">>}

\* the body of r was sent with a jurisdiction outside the served ones or
\* with a secure_code of fewer than three characters
Malformed(r) ==
    /\ req[r].raw # None
    /\ \/ Len(req[r].raw[1].secure_code) < 3
       \/ /\ req[r].raw[1].jurisdiction # None
          /\ req[r].raw[1].jurisdiction[1] \notin ServedJurisdictions

(* C25: a request sent with a jurisdiction outside {UK, US, EU, CA, AU} or *)
(* with a secure_code shorter than three characters is answered with a     *)
(* validation error, and nothing has been fetched, no breaker has been     *)
(* touched and no rule has been evaluated for it.                          *)
C25_RejectedBeforeWork ==
    \A r \in Requests :
        Malformed(r) =>
            /\ req[r].pc = "rejected"
            /\ req[r].resp # None
            /\ req[r].resp[1].status = 422
            /\ req[r].resp[1].verdict = ""
            /\ req[r].request = None
            /\ req[r].engine = None
            /\ req[r].src = 0
            /\ req[r].call = IdleCall
            /\ req[r].outcomes = <<>>
            /\ req[r].secure_data = EmptyDict
            /\ ~req[r].evaluated
            /\ (\A q \in Requests : q # r => req[q].pc \in {"new", "rejected"}) =>
                   srcFails = [i \in 1 .. Len(Endpoints) |-> 0]

\* a request with a good secure_code and the jurisdiction DE has been
\* rejected after another request was served
C25_Witness ==
    /\ req[1].pc = "error"
    /\ req[2].pc = "rejected"
    /\ req[2].raw[1].secure_code = <<"a", "b", "c">>
    /\ req[2].raw[1].jurisdiction = Some(<<"D", "E">>)

----------------------------------------------------------------------------
\* the body of r has a secure_code of three characters or more and a
\* jurisdiction that is left out or is, in upper case, a served one
WellFormed(r) ==
    /\ req[r].raw # None
    /\ Len(req[r].raw[1].secure_code) >= 3
    /\ \/ req[r].raw[1].jurisdiction = None
       \/ Upper(req[r].raw[1].jurisdiction[1]) \in ServedJurisdictions

(* C26: a request whose jurisdiction is a served one in any letter case is *)
(* accepted and served with its secure_code and jurisdiction in upper      *)
(* case, and a request without a jurisdiction is served as UK.             *)
C26_Normalised ==
    \A r \in Requests :
        WellFormed(r) =>
            /\ req[r].pc # "rejected"
            /\ req[r].request # None
            /\ req[r].request[1].secure_code = Upper(req[r].raw[1].secure_code)
            /\ req[r].request[1].jurisdiction =
                   IF req[r].raw[1].jurisdiction = None THEN <<"U", "K">>
                   ELSE Upper(req[r].raw[1].jurisdiction[1])

----------------------------------------------------------------------------
\* the fetch of r is over and r supplied security answers
AnswersDue(r) ==
    /\ req[r].pc \in {"joined", "done", "error"}
    /\ SuppliesAnswers(r)

(* C27: the inspected security answer validates exactly when its field is  *)
(* an enumerated one, the answer is not blank and, trimmed and in lower    *)
(* case, it equals the fetched attribute of that field trimmed and in      *)
(* lower case (an attribute that was not fetched never matches); and a     *)
(* request whose answer passes is not granted anything by that: the rules  *)
(* are evaluated for it and a verdict it gets is the one they produce.     *)
C27_AnswerPasses ==
    \A r \in Requests :
        AnswersDue(r) =>
            /\ validate_security_answers(req[r].request[1].security_answers[1],
                                         req[r].secure_data)
                   <=> AnswerPasses(req[r].request[1].security_answers[1][1],
                                    req[r].secure_data)
            /\ (Answered(r) /\ AnswerPasses(req[r].request[1].security_answers[1][1],
                                             req[r].secure_data)) =>
                   /\ req[r].evaluated
                   /\ req[r].resp[1].verdict # "YES"
                          \/ req[r].resp[1].verdict
                                 = Evaluate(Rules, req[r].context[1]).verdict

\* an answer that differs from the fetched attribute in case and in the
\* blanks around it has passed, and the rules were evaluated
C27_Witness ==
    \E r \in Requests :
        /\ Answered(r)
        /\ SuppliesAnswers(r)
        /\ "favorite_color" \in DOMAIN req[r].secure_data
        /\ req[r].secure_data.favorite_color
               # StrV(req[r].request[1].security_answers[1][1].answer)
        /\ AnswerPasses(req[r].request[1].security_answers[1][1], req[r].secure_data)
        /\ req[r].evaluated

----------------------------------------------------------------------------
\* r has been answered and its fetch had come back with nothing
NothingFetched(r) ==
    /\ Answered(r)
    /\ req[r].request # None
    /\ DOMAIN req[r].secure_data = {}

(* C28: a request whose fetch came back with nothing is not given up:      *)
(* the rules are evaluated for it, on a context that holds the             *)
(* secure_code, the jurisdiction and the client id of the request and      *)
(* nothing else.                                                           *)
C28_FetchFailureProceeds ==
    \A r \in Requests :
        NothingFetched(r) =>
            /\ req[r].evaluated
            /\ req[r].context =
                   Some([secure_code |-> StrV(req[r].request[1].secure_code),
                         jurisdiction |-> StrV(req[r].request[1].jurisdiction),
                         client_id |-> OptV(req[r].request[1].client_id)])

\* every source of a request with security answers failed, and the rules
\* were evaluated
C28_Witness ==
    \E r \in Requests :
        /\ NothingFetched(r)
        /\ SuppliesAnswers(r)
        /\ Len(req[r].outcomes) = Len(Endpoints)
        /\ \A i \in 1 .. Len(req[r].outcomes) : req[r].outcomes[i].outcome # "data"
        /\ req[r].evaluated

----------------------------------------------------------------------------
(* C29: a request whose processing raised is answered with the failure     *)
(* (status 500) and with no verdict, no token and no QR code; and a        *)
(* request that has failed or is done stays as it is.                      *)
C29_ErrorTerminal ==
    /\ [](\A r \in Requests :
            req[r].pc = "error" =>
                /\ req[r].resp[1].status = 500
                /\ req[r].resp[1].verdict = ""
                /\ req[r].resp[1].jwt_token = None
                /\ req[r].resp[1].qr_code = None)
    /\ [][\A r \in Requests :
            req[r].pc \in {"done", "error"} => req'[r] = req[r]]_vars

\* the first request failed after its rules were evaluated, and the second
\* is being served
C29_Witness ==
    /\ req[1].pc = "error"
    /\ req[1].evaluated
    /\ req[2].pc = "fetch"

----------------------------------------------------------------------------
\* the texts of the exceptions that processing raises
ExceptionTexts == {NameError("generate_verifiable_token")}

(* C30: the response to a request whose processing raised tells nothing of *)
(* the exception: no part of its detail is the text of the exception.      *)
C30_OpaqueFailure ==
    \A r \in Requests :
        req[r].pc = "error" =>
            \A i \in 1 .. Len(req[r].resp[1].detail) :
                req[r].resp[1].detail[i] \notin ExceptionTexts

----------------------------------------------------------------------------
(* C31: however process_request ends (with a response after the rules were *)
(* evaluated, with the NO of a bad security answer, or by raising), the    *)
(* cleanup has run when the caller has its answer: the engine holds no     *)
(* connector manager, and with it no connector, breaker or fetched data.   *)
C31_CleanupAlways ==
    \A r \in Requests :
        req[r].pc \in {"done", "error"} =>
            /\ req[r].engine = None
            /\ req[r].call = IdleCall

\* one request ended on the short-circuit and another by raising
C31_Witness ==
    /\ req[1].pc = "done"
    /\ ~req[1].evaluated
    /\ req[1].engine = None
    /\ req[2].pc = "error"
    /\ req[2].resp[1].status = 500
    /\ req[2].engine = None

----------------------------------------------------------------------------
(* C32: with calls of one connector running concurrently, no record call   *)
(* is lost: the failure_count is the number of failures recorded since the *)
(* last success by whichever call, and the breaker is CLOSED exactly when  *)
(* that number is below the threshold.                                     *)
C32_AtomicUpdates ==
    /\ cb.failure_count = run
    /\ cb.state = "CLOSED" <=> run < failure_threshold

\* two calls are in their backoff sleeps, each with a failure recorded
C32_Witness ==
    /\ task[1].pc = "sleep"
    /\ task[2].pc = "sleep"
    /\ task[1].attempt + task[2].attempt >= 1
    /\ cb.failure_count >= 3

----------------------------------------------------------------------------
(* C33: every attempt makes one record call on the breaker, record_success *)
(* if it gives the caller its data and record_failure otherwise.           *)
C33_OneOutcome ==
    last.op = "attempt" =>
        /\ Len(last.recorded) = 1
        /\ last.recorded = <<"record_success">> <=> last.ret

----------------------------------------------------------------------------
(* C34: a call that got no successful response does not return: what a     *)
(* call returns is the data of a response, whatever the retry count.       *)
C34_ExhaustionRaises ==
    \A k \in Tasks : task[k].pc = "returned" => task[k].value = "data"

----------------------------------------------------------------------------
(* C38: a call that is rejected because the breaker is OPEN leaves the     *)
(* failure_count, the last_failure_time and the state as they were.        *)
C38_RejectionKeepsBreaker ==
    [][\A k \in Tasks :
          (task'[k] # task[k] /\ task'[k].value = "circuit_open") => cb' = cb]_vars

\* a call has been rejected by the OPEN breaker
C38_Witness ==
    \E k \in Tasks :
        /\ task[k].pc = "raised"
        /\ task[k].value = "circuit_open"
        /\ cb.state = "OPEN"
        /\ now > cb.last_failure_time[1]

----------------------------------------------------------------------------
(* C37: whatever calls were made on the breaker, it is CLOSED exactly when *)
(* its failure_count is below the threshold, and when it is OPEN or        *)
(* HALF_OPEN the failure_count has reached the threshold and               *)
(* last_failure_time is set.                                               *)
C37_BreakerInvariant ==
    /\ cb.state \in {"CLOSED", "OPEN", "HALF_OPEN"}
    /\ cb.state = "CLOSED" <=> cb.failure_count < failure_threshold
    /\ cb.state \in {"OPEN", "HALF_OPEN"} =>
           /\ cb.failure_count >= failure_threshold
           /\ cb.last_failure_time # None

\* a failure has just been recorded on a HALF_OPEN breaker
C37_Witness ==
    /\ last.op = "record_failure"
    /\ last.pre.state = "HALF_OPEN"
    /\ cb.state = "OPEN"
    /\ cb.failure_count > failure_threshold

----------------------------------------------------------------------------
\* the rules evaluate looks at: all of them up to the first applicable one
\* that matches, or all of them
Reached == [i \in 1 .. (IF Deciding # {} THEN FirstDeciding ELSE Len(ruleset)) |-> i]

IsApplicable(i) == Applicable(ruleset[i])

\* those of them that their jurisdiction filter does not skip, in order
Entered == SelectSeq(Reached, IsApplicable)

(* C35: the reasoning evaluate returns holds, in configured order, one     *)
(* entry for each rule that its jurisdiction filter does not skip, up to   *)
(* and including the first one that matches, and no other entry; when      *)
(* there is no such rule it is the no-applicable-rules text.               *)
C35_Trace ==
    Evaluating("evaluate") =>
        IF Entered = <<>>
        THEN /\ Len(evaluation[1].result.reasoning) = 1
             /\ evaluation[1].result.reasoning[1].entry.kind = "no_applicable_rules"
        ELSE /\ Len(evaluation[1].result.reasoning) = Len(Entered)
             /\ \A n \in 1 .. Len(Entered) :
                    /\ evaluation[1].result.reasoning[n].rule = ruleset[Entered[n]].name
                    /\ evaluation[1].result.reasoning[n].entry.kind # "no_applicable_rules"

\* the first rule matched and the second, which applies too, left no entry
C35_Witness ==
    /\ Evaluating("evaluate")
    /\ Len(ruleset) = 2
    /\ Deciding = {1, 2}
    /\ Len(evaluation[1].result.reasoning) = 1
    /\ evaluation[1].result.reasoning[1].rule = ruleset[1].name

----------------------------------------------------------------------------
\* the rule _evaluate_rule was called on
RuleCalled == ruleset[evaluation[1].rule]

(* C39: a rule with an empty AND group matches whatever the context (and   *)
(* evaluate answers YES when it is the first rule, applies and grants      *)
(* YES); a rule with an empty OR group and no AND group does not match,    *)
(* and neither does a rule with no group at all.                           *)
C39_EmptyGroups ==
    /\ Evaluating("_evaluate_rule") =>
           /\ RuleCalled.conditions.AND = Some(<<>>) =>
                  ~evaluation[1].result.raised /\ evaluation[1].result.matched
           /\ (RuleCalled.conditions.AND = None /\ RuleCalled.conditions.OR = Some(<<>>)) =>
                  ~evaluation[1].result.raised /\ ~evaluation[1].result.matched
           /\ (RuleCalled.conditions.AND = None /\ RuleCalled.conditions.OR = None) =>
                  ~evaluation[1].result.raised /\ ~evaluation[1].result.matched
    /\ /\ Evaluating("evaluate")
       /\ ruleset # <<>>
       /\ Applicable(ruleset[1])
       /\ ruleset[1].conditions.AND = Some(<<>>)
       /\ ruleset[1].action = "GRANT_YES"
       => evaluation[1].result.verdict = "YES"

\* a rule whose only group is an empty AND has granted YES on the empty
\* context
C39_Witness ==
    /\ Evaluating("evaluate")
    /\ facts = EmptyDict
    /\ Len(ruleset) = 1
    /\ ruleset[1].conditions = [AND |-> Some(<<>>), OR |-> None]
    /\ evaluation[1].result.verdict = "YES"

----------------------------------------------------------------------------
\* the operator names _evaluate_condition compares with
Recognised ==
    {"EQUALS", "NOT_EQUALS", "GREATER_THAN", "LESS_THAN", "GREATER_THAN_OR_EQUAL_TO",
     "LESS_THAN_OR_EQUAL_TO", "IN", "NOT_IN", "CONTAINS", "NOT_CONTAINS"}

\* the condition is a dict whose operator the evaluator does not know
Unrecognised(condition) == condition.dict /\ condition.operator \notin Recognised

(* C40: a condition whose operator is none of the names the evaluator      *)
(* compares with does not match, whatever its fact and value, and does not *)
(* raise; a configured rule that holds such a condition is loaded as it    *)
(* is; and evaluate looks at it: alone in the rule list, it leaves its     *)
(* entry in the reasoning and the verdict is NO.                           *)
C40_UnknownOperator ==
    /\ (Evaluating("_evaluate_condition") /\ Unrecognised(evaluation[1].condition)) =>
           /\ ~evaluation[1].result.raised
           /\ ~evaluation[1].result.matched
           /\ evaluation[1].condition.fact \in DOMAIN facts =>
                  evaluation[1].result.reason.kind = "unknown_operator"
    /\ \A rules_data \in LeafConfigs :
           Unrecognised(rules_data[1].conditions.AND[1][1]) =>
               LoadRules(Named(rules_data)) = Named(rules_data)
    /\ /\ Evaluating("evaluate")
       /\ Len(ruleset) = 1
       /\ ruleset[1].conditions.AND # None
       /\ Len(ruleset[1].conditions.AND[1]) = 1
       /\ Unrecognised(ruleset[1].conditions.AND[1][1])
       => /\ evaluation[1].result.verdict = "NO"
          /\ Len(evaluation[1].result.reasoning) = 1
          /\ evaluation[1].result.reasoning[1].rule = ruleset[1].name

\* GREATER_THAN_EQUAL, a name of RuleCondition's list, has been evaluated on
\* an age of 20 against 18 and did not match
C40_Witness ==
    /\ Evaluating("_evaluate_condition")
    /\ evaluation[1].condition.operator = "GREATER_THAN_EQUAL"
    /\ evaluation[1].condition.fact = "age"
    /\ evaluation[1].condition.value = IntV(18)
    /\ "age" \in DOMAIN facts
    /\ facts["age"] = IntV(20)
    /\ evaluation[1].result.reason.kind = "unknown_operator"
    /\ ruleset[1].conditions.AND[1][1] = evaluation[1].condition

----------------------------------------------------------------------------
(* C36: whether a request with security answers is short-circuited is      *)
(* decided by the first entry of its answers alone: it is short-circuited  *)
(* exactly when data was fetched and the first entry, taken on its own,    *)
(* does not validate, whatever the later entries are.                      *)
C36_FirstAnswerOnly ==
    \A r \in Requests :
        (Answered(r) /\ req[r].request # None /\ SuppliesAnswers(r)) =>
            (~req[r].evaluated <=>
                /\ DOMAIN req[r].secure_data # {}
                /\ ~validate_security_answers(
                        <<req[r].request[1].security_answers[1][1]>>, req[r].secure_data))

\* a request whose first answer passes and whose second is blank and of an
\* unknown field went on to the rules, and one whose first answer is of an
\* unknown field and whose second is right was short-circuited
C36_Witness ==
    /\ Answered(1) /\ Answered(2)
    /\ req[1].request # None /\ req[2].request # None
    /\ SuppliesAnswers(1) /\ SuppliesAnswers(2)
    /\ Len(req[1].request[1].security_answers[1]) = 2
    /\ Len(req[2].request[1].security_answers[1]) = 2
    /\ req[1].evaluated
    /\ ~req[2].evaluated
    /\ AnswerPasses(req[2].request[1].security_answers[1][2], req[2].secure_data)

====
